---- MODULE Spec2Model ----
(***************************************************************************)
(* Call signaling and media core of the AppProvider store                  *)
(* (src/unnamed/part_000): React state, the refs that mirror it, the peer  *)
(* connection registry, the local capture stream and the asynchronous      *)
(* handlers that interleave at their await points.                         *)
(*                                                                         *)
(* React state (useState) is updated by the setters at once; the closures  *)
(* handed to the UI and the *Ref mirrors read by the long-lived signaling  *)
(* handler only see it after the next render and its effect (Render).      *)
(* A suspended async function is one entry of ops; consecutive awaits on   *)
(* the same RTCPeerConnection are one step.                                *)
(***************************************************************************)
EXTENDS Integers, Sequences, FiniteSets, TLC

\* ---- bounds of the model ----
MaxOps == 1            \* async functions suspended at once
MaxHangups == 2        \* HANGUP cases suspended at once, nothing else running
MaxStreams == 2        \* MediaStream objects alive at once
MaxTracks == 2         \* MediaStreamTrack objects alive at once
MaxRecipients == 2     \* length of the list given to startGroupCall
MaxParticipants == 2   \* length of activeCallData.participantIds
MaxSdp == 1            \* distinct session descriptions on the wire
MaxRecords == 2        \* missed-call rows counted per pending call
MaxStale == 1          \* steps that may run on a state not yet rendered
MaxToggles == 2        \* media toggles suspended at once during a call
MaxToggled == 3        \* media toggles the user makes during a call
MaxMediaStreams == 4   \* MediaStream objects alive at once, toggles included
MaxMediaTracks == 4    \* MediaStreamTrack objects alive at once, toggles included
MaxWire == 2           \* envelopes in flight to one of two users
MaxPairOps == 2        \* async functions suspended at once, two users modelled
MaxClicks == 2         \* calls the two users start, accept or reject between them
MaxEnds == 1           \* calls the two users end between them

Me == "A"
Remotes == {"B", "C"}
Users == Remotes \cup {Me}
Undefined == ""
StreamIds == 1..MaxStreams
TrackIds == 1..MaxTracks
MediaStreamIds == 1..MaxMediaStreams
MediaTrackIds == 1..MaxMediaTracks
Sdps == 1..MaxSdp

\* a nullable value is a sequence of length 0 (null) or 1
None == <<>>
Some(x) == <<x>>

SignalTypes == {"OFFER", "ANSWER", "CANDIDATE", "HANGUP", "USER_ONLINE"}

\* an envelope is addressed to nobody, to the local user or to another user
Recipients == {Undefined, Me, "B"}

RecipientLists ==
  UNION {[1..n -> Remotes] : n \in 1..MaxRecipients}

VARIABLES
  currentUser,              \* useState: a user is logged in
  incomingCall,             \* useState: None or Some([callerId, offer])
  isInCall,                 \* useState
  activeCallData,           \* useState: None or Some(participantIds)
  localStream,              \* useState: 0 (null) or a stream id
  remoteStreams,            \* useState: remote ids that have a stream
  isScreenSharing, isMicOn, isCameraOn,
  rendered,                 \* state as of the last render and ref-sync effect
  peerConnectionsRef,       \* registry: remote id -> signaling state of its
                            \* connection, "none" when there is no entry
  isSignalingConnectedRef,  \* channel status is SUBSCRIBED
  streams,                  \* MediaStream objects
  tracks,                   \* MediaStreamTrack objects
  ops,                      \* suspended async functions
  missedNotifs, missedMsgs, \* rows written for the pending call stored last
  unrendered,               \* steps taken since the state left the last render
  toggled,                  \* media toggles the user has made in this call
  peerStore,                \* the store of a second user, when one is modelled
  peerUnrendered,           \* unrendered of the second user
  wire,                     \* envelopes in flight to each of the two users
  clicks                    \* what the two users have done so far

storeVars == <<currentUser, incomingCall, isInCall, activeCallData, localStream,
               remoteStreams, isScreenSharing, isMicOn, isCameraOn, rendered,
               peerConnectionsRef, isSignalingConnectedRef, streams, tracks,
               ops, missedNotifs, missedMsgs, unrendered, toggled>>
pairVars == <<peerStore, peerUnrendered, wire, clicks>>
vars == <<storeVars, pairVars>>

\* The whole state as one record, so that the handlers are functions on it.
\* Seven more fields describe one step and are not kept from step to step:
\* outbox, the envelopes the step hands to the channel; raised, whether it
\* ends in an unhandled rejection; leakedPcs and leakedTracks, the open
\* connections and live tracks that nothing can reach once it is over;
\* attached, the connections a captured track was handed to, as pairs of
\* remote id and track; inserted, the rows the step hands to the database;
\* nulled, the connections whose video sender was given the null track.
Cur ==
  [currentUser |-> currentUser, incomingCall |-> incomingCall,
   isInCall |-> isInCall, activeCallData |-> activeCallData,
   localStream |-> localStream, remoteStreams |-> remoteStreams,
   isScreenSharing |-> isScreenSharing, isMicOn |-> isMicOn,
   isCameraOn |-> isCameraOn, rendered |-> rendered,
   peerConnectionsRef |-> peerConnectionsRef,
   isSignalingConnectedRef |-> isSignalingConnectedRef,
   streams |-> streams, tracks |-> tracks, ops |-> ops,
   missedNotifs |-> missedNotifs, missedMsgs |-> missedMsgs,
   toggled |-> toggled,
   outbox |-> <<>>, raised |-> FALSE, leakedPcs |-> 0, leakedTracks |-> 0,
   attached |-> {}, inserted |-> <<>>, nulled |-> {}]

\* the latest pending call is over: no handler of its HANGUP is suspended
\* and neither the state nor the ref holds it
CallOver ==
  /\ incomingCall = <<>>
  /\ rendered.incomingCall = <<>>
  /\ \A i \in DOMAIN ops : ops[i].kind # "HANGUP"

\* the state a step starts from; the row counts are dropped one step after
\* the call they belong to is over
Begin ==
  [Cur EXCEPT !.missedNotifs = IF CallOver THEN 0 ELSE @,
              !.missedMsgs = IF CallOver THEN 0 ELSE @]

\* what a render hands to the closures and what the effect copies to the refs
Snapshot(s) ==
  [currentUser |-> s.currentUser, incomingCall |-> s.incomingCall,
   isInCall |-> s.isInCall, activeCallData |-> s.activeCallData,
   localStream |-> s.localStream, isScreenSharing |-> s.isScreenSharing,
   isMicOn |-> s.isMicOn, isCameraOn |-> s.isCameraOn]

FreeStream == [used |-> FALSE, tracks |-> {}]
FreeTrack == [kind |-> "free", enabled |-> FALSE, live |-> FALSE]

RemoveAt(seq, i) == SubSeq(seq, 1, i - 1) \o SubSeq(seq, i + 1, Len(seq))
Includes(seq, x) == \E k \in DOMAIN seq : seq[k] = x
RECURSIVE Filter(_, _)
Filter(seq, x) ==
  IF seq = <<>> THEN <<>>
  ELSE IF Head(seq) = x THEN Filter(Tail(seq), x)
       ELSE <<Head(seq)>> \o Filter(Tail(seq), x)

\* A suspended function.  pc says which connection it holds: "registry", the
\* one now registered for peer; "closed", one that was closed meanwhile;
\* "stable" or "have-local-offer", one that was replaced in the registry and
\* is still open in that signaling state; "none".  pend is the list of
\* startGroupCall's recipients whose createOffer is outstanding.  A media
\* toggle keeps the localStream of its closure in stream, the other video
\* flag of its closure in wasOn, the track it captured in track and, while
\* it is inside renegotiate, what it does afterwards in after.
NoOp ==
  [kind |-> "", phase |-> "", peer |-> Undefined, ids |-> <<>>, pend |-> <<>>,
   pc |-> "none", call |-> None, rejected |-> FALSE,
   stream |-> 0, track |-> 0, wasOn |-> FALSE, after |-> ""]

IsOpen(sig) == sig \in {"stable", "have-local-offer"}

\* the signaling state of the connection a function holds
SigOf(s, peer, pc) == IF pc = "registry" THEN s.peerConnectionsRef[peer] ELSE pc

\* the registered connection of remote id r stops being the registered one:
\* every function that holds it now holds it as `as`
Retarget(held, r, as) ==
  [k \in DOMAIN held |->
     IF held[k].to = r /\ held[k].pc = "registry"
     THEN [held[k] EXCEPT !.pc = as] ELSE held[k]]
Detach(s, r, as) ==
  [s EXCEPT !.ops =
     [k \in DOMAIN s.ops |->
        [s.ops[k] EXCEPT
           !.pc = IF s.ops[k].peer = r /\ @ = "registry" THEN as ELSE @,
           !.pend = Retarget(@, r, as)]]]

\* streams and tracks that nothing can reach any more are dropped from the
\* heaps; the tracks among them that were never stopped are counted
Gc(s) ==
  LET refSt == {s.localStream, s.rendered.localStream}
                 \cup {s.ops[k].stream : k \in DOMAIN s.ops}
      streams1 == [i \in DOMAIN s.streams |->
                     IF i \in refSt THEN s.streams[i] ELSE FreeStream]
      refTr == UNION {streams1[i].tracks : i \in DOMAIN s.streams}
                 \cup {s.ops[k].track : k \in DOMAIN s.ops}
      deadTr == {t \in DOMAIN s.tracks : s.tracks[t].kind # "free" /\ t \notin refTr}
      lostTr == {t \in deadTr : s.tracks[t].live}
  IN [s EXCEPT
        !.streams = streams1,
        !.tracks = [t \in DOMAIN s.tracks |->
                      IF t \in deadTr THEN FreeTrack ELSE s.tracks[t]],
        !.leakedTracks = Cardinality(lostTr)]

\* the store after a step is s with its heaps collected; s is worked out
\* once per step
SetStore(s) ==
  \E n \in {Gc(s)} :
     /\ currentUser' = n.currentUser
     /\ incomingCall' = n.incomingCall
     /\ isInCall' = n.isInCall
     /\ activeCallData' = n.activeCallData
     /\ localStream' = n.localStream
     /\ remoteStreams' = n.remoteStreams
     /\ isScreenSharing' = n.isScreenSharing
     /\ isMicOn' = n.isMicOn
     /\ isCameraOn' = n.isCameraOn
     /\ rendered' = n.rendered
     /\ peerConnectionsRef' = n.peerConnectionsRef
     /\ isSignalingConnectedRef' = n.isSignalingConnectedRef
     /\ streams' = n.streams
     /\ tracks' = n.tracks
     /\ ops' = n.ops
     /\ missedNotifs' = n.missedNotifs
     /\ missedMsgs' = n.missedMsgs
     /\ unrendered' = IF n.rendered = Snapshot(n) THEN 0 ELSE unrendered + 1
     /\ toggled' = n.toggled

\* a step of the store when it is the only one modelled
Set(s) == SetStore(s) /\ UNCHANGED pairVars

\* no second user is modelled
Alone ==
  /\ peerStore = <<>>
  /\ peerUnrendered = 0
  /\ wire = <<>>
  /\ clicks = <<>>

\* ---- object allocation ----
CanCapture(s) ==
  /\ \E i \in DOMAIN s.streams : ~s.streams[i].used
  /\ \E t \in DOMAIN s.tracks : s.tracks[t].kind = "free"
FreeStreamId(s) ==
  CHOOSE i \in DOMAIN s.streams :
    ~s.streams[i].used /\ \A j \in DOMAIN s.streams : ~s.streams[j].used => i <= j
FreeTrackId(s) ==
  CHOOSE t \in DOMAIN s.tracks :
    s.tracks[t].kind = "free"
    /\ \A u \in DOMAIN s.tracks : s.tracks[u].kind = "free" => t <= u

PushOp(s, op) == [s EXCEPT !.ops = Append(@, op)]
DropOp(s, i) == [s EXCEPT !.ops = RemoveAt(@, i)]

\* ---- helpers of the store ----

\* sendSignal: silently drops unless the channel is SUBSCRIBED.  Every caller
\* runs in a closure that captured a logged-in currentUser, and the channel
\* ref is set whenever the status can be SUBSCRIBED.
\* sendSignal without the check of isSignalingConnectedRef
sendSignalUnchecked(s, type, recipientId) ==
  [s EXCEPT !.outbox =
     Append(@, [type |-> type, senderId |-> Me,
                recipientId |-> recipientId])]

sendSignal(s, type, recipientId) ==
  IF ~s.isSignalingConnectedRef THEN s
  ELSE [s EXCEPT !.outbox =
          Append(@, [type |-> type, senderId |-> Me,
                     recipientId |-> recipientId])]

\* navigator.mediaDevices.getUserMedia({video: false, audio: true}) resolved
\* and its audio tracks were disabled: a new stream with one new audio track
getUserMediaAudio(s) ==
  LET sid == FreeStreamId(s)
      t == FreeTrackId(s)
  IN [s EXCEPT
        !.tracks[t] = [kind |-> "audio", enabled |-> FALSE, live |-> TRUE],
        !.streams[sid] = [used |-> TRUE, tracks |-> {t}]]

\* a connection for recipientId is put in the registry; one that was there
\* is not closed, and nothing closes it later
createPeerConnection(s, recipientId) ==
  LET old == s.peerConnectionsRef[recipientId]
  IN IF old = "none"
     THEN [s EXCEPT !.peerConnectionsRef[recipientId] = "stable"]
     ELSE [Detach(s, recipientId, old) EXCEPT
             !.peerConnectionsRef[recipientId] = "stable",
             !.leakedPcs = @ + 1]

\* pc.close() and peerConnectionsRef.current.delete(remoteId)
closeEntry(s, remoteId) ==
  IF s.peerConnectionsRef[remoteId] = "none" THEN s
  ELSE [Detach(s, remoteId, "closed") EXCEPT
          !.peerConnectionsRef[remoteId] = "none"]

RECURSIVE closeAll(_, _)
closeAll(s, rs) ==
  IF rs = {} THEN s
  ELSE LET r == CHOOSE x \in rs : TRUE
       IN closeAll(closeEntry(s, r), rs \ {r})

\* cleanupCall that drops the stream without stopping its tracks
cleanupCallKeepsTracks(s) ==
  [closeAll(s, Remotes) EXCEPT
     !.localStream = 0, !.remoteStreams = {}, !.isInCall = FALSE,
     !.activeCallData = None, !.isScreenSharing = FALSE,
     !.isMicOn = FALSE, !.isCameraOn = FALSE]

\* cleanupCall reads the stream through localStreamRef
cleanupCall(s) ==
  LET ref == s.rendered.localStream
      stopped == IF ref = 0 THEN {} ELSE s.streams[ref].tracks
  IN [closeAll(s, Remotes) EXCEPT
        !.tracks = [t \in DOMAIN s.tracks |->
                      IF t \in stopped THEN [@[t] EXCEPT !.live = FALSE]
                      ELSE @[t]],
        !.localStream = 0,
        !.remoteStreams = {},
        !.isInCall = FALSE,
        !.activeCallData = None,
        !.isScreenSharing = FALSE,
        !.isMicOn = FALSE,
        !.isCameraOn = FALSE]

\* handleRemoteHangup whose updater forgets cleanupCall for the last participant
handleRemoteHangupNoCleanup(s, senderId) ==
  LET s1 == closeEntry(s, senderId)
      s2 == [s1 EXCEPT !.remoteStreams = @ \ {senderId}]
  IN IF s2.activeCallData = None THEN s2
     ELSE LET newIds == Filter(s2.activeCallData[1], senderId)
          IN [s2 EXCEPT !.activeCallData =
                IF newIds = <<>> THEN None ELSE Some(newIds)]

\* handleRemoteHangup that tears the call down whoever is left in it
handleRemoteHangupEndsCall(s, senderId) ==
  LET s1 == closeEntry(s, senderId)
      s2 == [s1 EXCEPT !.remoteStreams = @ \ {senderId}]
  IN IF s2.activeCallData = None THEN s2
     ELSE [cleanupCall(s2) EXCEPT !.activeCallData = None]

handleRemoteHangup(s, senderId) ==
  LET s1 == closeEntry(s, senderId)
      s2 == [s1 EXCEPT !.remoteStreams = @ \ {senderId}]
  IN IF s2.activeCallData = None THEN s2
     ELSE LET newIds == Filter(s2.activeCallData[1], senderId)
          IN IF newIds = <<>>
             THEN [cleanupCall(s2) EXCEPT !.activeCallData = None]
             ELSE [s2 EXCEPT !.activeCallData = Some(newIds)]

\* setActiveCallData(prev => prev ? append : null) of addToCall
appendParticipant(s, recipientId) ==
  IF s.activeCallData = None THEN s
  ELSE [s EXCEPT !.activeCallData = Some(Append(@[1], recipientId))]

\* pc.setLocalDescription on the connection a function holds
SetSig(s, peer, pc, sig) ==
  IF pc = "registry" THEN [s EXCEPT !.peerConnectionsRef[peer] = sig] ELSE s

\* offerSettled that keeps the offer to itself
offerSettledSilent(s, peer, pc, ok) ==
  IF ok /\ IsOpen(SigOf(s, peer, pc))
  THEN SetSig(s, peer, pc, "have-local-offer")
  ELSE s

\* createOffer and setLocalDescription settled, then the OFFER is sent; on a
\* closed connection, or when the browser fails, the catch only logs
offerSettled(s, peer, pc, ok) ==
  IF ok /\ IsOpen(SigOf(s, peer, pc))
  THEN sendSignal(SetSig(s, peer, pc, "have-local-offer"), "OFFER", peer)
  ELSE s

\* the forEach of startGroupCall up to each callback's first await: the
\* connections are created one after the other, each callback then waits
RECURSIVE callEach(_, _, _)
callEach(s, recipientIds, held) ==
  IF recipientIds = <<>> THEN PushOp(s, [NoOp EXCEPT !.kind = "startGroupCall",
                                                     !.phase = "createOffer",
                                                     !.pend = held])
  ELSE LET r == Head(recipientIds)
           old == s.peerConnectionsRef[r]
       IN callEach(createPeerConnection(s, r), Tail(recipientIds),
                   Append(Retarget(held, r, old), [to |-> r, pc |-> "registry"]))

\* startGroupCall from setIsInCall on
startGroupCallCommit(s, recipientIds) ==
  callEach([s EXCEPT !.isInCall = TRUE,
                     !.activeCallData = Some(recipientIds)],
           recipientIds, <<>>)

\* startCall(recipientId) is startGroupCall([recipientId]); the closure reads
\* currentUser and localStream of its render
startGroupCall(s, recipientIds) ==
  IF ~s.rendered.currentUser \/ recipientIds = <<>> THEN s
  ELSE IF s.rendered.localStream = 0
       THEN PushOp(s, [NoOp EXCEPT !.kind = "startGroupCall",
                                   !.phase = "getUserMedia",
                                   !.ids = recipientIds])
       ELSE startGroupCallCommit(s, recipientIds)

\* startGroupCall that enters the call even when the microphone is refused
startGroupCallMediaAnyway(s, i, ok) ==
  LET s1 == DropOp(s, i)
  IN IF ~ok THEN startGroupCallCommit(s1, s.ops[i].ids)
     ELSE LET s2 == getUserMediaAudio(s1)
          IN startGroupCallCommit(
               [s2 EXCEPT !.isMicOn = FALSE, !.isCameraOn = FALSE,
                          !.localStream = FreeStreamId(s1)],
               s.ops[i].ids)

\* getUserMedia of startGroupCall settled
startGroupCallMedia(s, i, ok) ==
  LET s1 == DropOp(s, i)
  IN IF ~ok THEN s1
     ELSE LET s2 == getUserMediaAudio(s1)
          IN startGroupCallCommit(
               [s2 EXCEPT !.isMicOn = FALSE, !.isCameraOn = FALSE,
                          !.localStream = FreeStreamId(s1)],
               s.ops[i].ids)

\* one callback of the forEach resumes
startGroupCallOffer(s, i, p, ok) ==
  LET op == s.ops[i]
      s1 == IF Len(op.pend) = 1 THEN DropOp(s, i)
            ELSE [s EXCEPT !.ops[i].pend = RemoveAt(@, p)]
  IN offerSettled(s1, op.pend[p].to, op.pend[p].pc, ok)

\* addToCall up to its first await
addToCall(s, recipientId) ==
  IF ~s.rendered.currentUser \/ ~s.rendered.isInCall
     \/ s.rendered.activeCallData = None THEN s
  ELSE IF s.rendered.localStream = 0
       THEN PushOp(s, [NoOp EXCEPT !.kind = "addToCall",
                                   !.phase = "getUserMedia",
                                   !.peer = recipientId])
       ELSE PushOp(createPeerConnection(s, recipientId),
                   [NoOp EXCEPT !.kind = "addToCall", !.phase = "createOffer",
                                !.peer = recipientId, !.pc = "registry"])

\* getUserMedia of initiateCallConnection settled; when it failed
\* initiateCallConnection returns and addToCall appends the participant
addToCallMedia(s, i, ok) ==
  LET r == s.ops[i].peer
      s1 == DropOp(s, i)
  IN IF ~ok THEN appendParticipant(s1, r)
     ELSE LET s2 == getUserMediaAudio(s1)
              s3 == [s2 EXCEPT !.localStream = FreeStreamId(s1),
                               !.isMicOn = FALSE]
          IN PushOp(createPeerConnection(s3, r),
                    [NoOp EXCEPT !.kind = "addToCall", !.phase = "createOffer",
                                 !.peer = r, !.pc = "registry"])

\* createOffer of initiateCallConnection settled, addToCall appends
addToCallOffer(s, i, ok) ==
  LET op == s.ops[i]
  IN appendParticipant(offerSettled(DropOp(s, i), op.peer, op.pc, ok), op.peer)

\* acceptIncomingCall up to its first await; it keeps the incomingCall of
\* its render for the rest of its run
acceptIncomingCall(s) ==
  IF s.rendered.incomingCall = None \/ ~s.rendered.currentUser THEN s
  ELSE PushOp(s, [NoOp EXCEPT !.kind = "acceptIncomingCall",
                              !.phase = "getUserMedia",
                              !.call = s.rendered.incomingCall])

\* getUserMedia of acceptIncomingCall settled
acceptIncomingCallMedia(s, i, ok) ==
  LET op == s.ops[i]
      s1 == DropOp(s, i)
  IN IF ~ok THEN s1
     ELSE LET s2 == getUserMediaAudio(s1)
              s3 == [s2 EXCEPT !.isMicOn = FALSE, !.isCameraOn = FALSE,
                               !.localStream = FreeStreamId(s1)]
          IN PushOp(createPeerConnection(s3, op.call[1].callerId),
                    [op EXCEPT !.phase = "createAnswer",
                               !.peer = op.call[1].callerId,
                               !.pc = "registry"])

\* acceptIncomingCall whose last lines forget setIncomingCall(null)
acceptIncomingCallAnswerKeepsOffer(s, i, ok) ==
  LET op == s.ops[i]
      s1 == DropOp(s, i)
  IN IF ~(ok /\ IsOpen(SigOf(s, op.peer, op.pc))) THEN s1
     ELSE [sendSignal(s1, "ANSWER", op.peer) EXCEPT
             !.isInCall = TRUE,
             !.activeCallData = Some(<<op.peer>>)]

\* setRemoteDescription, createAnswer and setLocalDescription settled; on a
\* closed connection they reject and the catch only logs
acceptIncomingCallAnswer(s, i, ok) ==
  LET op == s.ops[i]
      s1 == DropOp(s, i)
  IN IF ~(ok /\ IsOpen(SigOf(s, op.peer, op.pc))) THEN s1
     ELSE [sendSignal(s1, "ANSWER", op.peer) EXCEPT
             !.isInCall = TRUE,
             !.activeCallData = Some(<<op.peer>>),
             !.incomingCall = None]

\* rejectIncomingCall that clears the stored offer and tells nobody
rejectIncomingCallSilent(s) ==
  IF s.rendered.incomingCall = None \/ ~s.rendered.currentUser THEN s
  ELSE [s EXCEPT !.incomingCall = None]

\* rejectIncomingCall; an accept of the same offer that is waiting for the
\* microphone is marked, which no code reads
rejectIncomingCall(s) ==
  IF s.rendered.incomingCall = None \/ ~s.rendered.currentUser THEN s
  ELSE LET call == s.rendered.incomingCall
           s1 == sendSignal(s, "HANGUP", call[1].callerId)
       IN [s1 EXCEPT
             !.incomingCall = None,
             !.ops = [k \in DOMAIN s.ops |->
                        IF s.ops[k].kind = "acceptIncomingCall"
                           /\ s.ops[k].phase = "getUserMedia"
                           /\ s.ops[k].call = call
                        THEN [s.ops[k] EXCEPT !.rejected = TRUE]
                        ELSE s.ops[k]]]

RECURSIVE sendEach(_, _, _)
sendEach(s, type, ids) ==
  IF ids = <<>> THEN s
  ELSE sendEach(sendSignal(s, type, Head(ids)), type, Tail(ids))

endCall(s) ==
  cleanupCall(IF s.rendered.activeCallData # None /\ s.rendered.currentUser
              THEN sendEach(s, "HANGUP", s.rendered.activeCallData[1])
              ELSE s)

login(s) == [s EXCEPT !.currentUser = TRUE]

\* logout that hangs up on the participants as endCall does
logoutRestHangsUp(s) ==
  endCall([s EXCEPT !.currentUser = FALSE, !.incomingCall = None,
                    !.isInCall = FALSE])

\* logout from localStorage.removeItem on
logoutRest(s) ==
  cleanupCall([s EXCEPT !.currentUser = FALSE, !.incomingCall = None,
                        !.isInCall = FALSE])

logout(s) ==
  IF s.rendered.currentUser
  THEN PushOp(s, [NoOp EXCEPT !.kind = "logout", !.phase = "update"])
  ELSE logoutRest(s)

\* ---- the signaling handler ----

\* the OFFER case creating the caller's connection as soon as the offer is in
onOfferEager(s, senderId, sdp) ==
  IF s.rendered.isInCall THEN s
  ELSE [createPeerConnection(s, senderId) EXCEPT
          !.incomingCall = Some([callerId |-> senderId, offer |-> sdp])]

\* case 'OFFER'.  Storing an offer begins a new pending call: the rows are
\* counted from zero, and a HANGUP case still running belongs to an earlier
\* call (its call field is blanked, which no code reads)
onOffer(s, senderId, sdp) ==
  LET currentIsInCall == s.rendered.isInCall
      isParticipant == IF s.rendered.activeCallData = None THEN FALSE
                       ELSE Includes(s.rendered.activeCallData[1], senderId)
  IN IF currentIsInCall /\ ~isParticipant THEN s
     ELSE IF currentIsInCall
          THEN IF s.peerConnectionsRef[senderId] = "none" THEN s
               ELSE PushOp(s, [NoOp EXCEPT !.kind = "OFFER",
                                           !.phase = "createAnswer",
                                           !.peer = senderId,
                                           !.pc = "registry"])
          ELSE [s EXCEPT
                  !.incomingCall = Some([callerId |-> senderId, offer |-> sdp]),
                  !.missedNotifs = 0,
                  !.missedMsgs = 0,
                  !.ops = [k \in DOMAIN s.ops |->
                             IF s.ops[k].kind = "HANGUP"
                             THEN [s.ops[k] EXCEPT !.call = None]
                             ELSE s.ops[k]]]

\* the renegotiation branch that applies the offer and never answers it
onOfferAnswerSilent(s, i, ok) ==
  LET op == s.ops[i]
      s1 == DropOp(s, i)
  IN IF ok /\ IsOpen(SigOf(s, op.peer, op.pc))
     THEN SetSig(s1, op.peer, op.pc, "stable")
     ELSE [s1 EXCEPT !.raised = TRUE]

\* the renegotiation branch resumes; nothing catches a rejection
onOfferAnswer(s, i, ok) ==
  LET op == s.ops[i]
      s1 == DropOp(s, i)
  IN IF ok /\ IsOpen(SigOf(s, op.peer, op.pc))
     THEN sendSignal(SetSig(s1, op.peer, op.pc, "stable"), "ANSWER", op.peer)
     ELSE [s1 EXCEPT !.raised = TRUE]

\* case 'ANSWER'
onAnswer(s, senderId) ==
  IF s.peerConnectionsRef[senderId] = "none" THEN s
  ELSE PushOp(s, [NoOp EXCEPT !.kind = "ANSWER",
                              !.phase = "setRemoteDescription",
                              !.peer = senderId, !.pc = "registry"])

\* an updater that appends the sender whether or not it is listed
answerUpdaterAppends(prev, senderId) ==
  IF prev = None THEN None ELSE Some(Append(prev[1], senderId))

\* the updater given to setActiveCallData by the ANSWER case
answerUpdater(prev, senderId) ==
  IF prev = None THEN None
  ELSE IF Includes(prev[1], senderId) THEN prev
       ELSE Some(Append(prev[1], senderId))

\* setRemoteDescription(answer) settled: it resolves only on a connection
\* that has a local offer outstanding; nothing catches a rejection
onAnswerSet(s, i, ok) ==
  LET op == s.ops[i]
      s1 == DropOp(s, i)
  IN IF ok /\ SigOf(s, op.peer, op.pc) = "have-local-offer"
     THEN [SetSig(s1, op.peer, op.pc, "stable") EXCEPT
             !.activeCallData = answerUpdater(@, op.peer)]
     ELSE [s1 EXCEPT !.raised = TRUE]

\* the row of the missed-call case for the notifications table, addressed
\* to the sender of the HANGUP
missedCallNotificationToCaller(senderId) ==
  [table |-> "notifications", recipient_id |-> senderId, sender_id |-> Me,
   type |-> "MISSED_CALL", title |-> "Missed Call", read |-> FALSE,
   link_to |-> senderId]

\* the row of the missed-call case for the notifications table; its type is
\* the member MISSED_CALL of NotificationType, and the effect that registered
\* the handler runs for the logged-in user only
missedCallNotification(senderId) ==
  [table |-> "notifications", recipient_id |-> Me, sender_id |-> senderId,
   type |-> "MISSED_CALL", title |-> "Missed Call", read |-> FALSE,
   link_to |-> senderId]

\* the row of the missed-call case for the messages table
missedCallMessage(senderId) ==
  [table |-> "messages", sender_id |-> senderId, recipient_id |-> Me,
   text |-> "Missed Call", type |-> "missed_call", attachments |-> <<>>]

\* supabase.from(table).insert(row) is called
insert(s, row) == [s EXCEPT !.inserted = Append(@, row)]

\* case 'HANGUP' up to its first await
onHangup(s, senderId) ==
  LET ref == s.rendered.incomingCall
      missed == IF ref = None THEN FALSE ELSE ref[1].callerId = senderId
  IN IF missed
     THEN PushOp(insert(s, missedCallNotification(senderId)),
                 [NoOp EXCEPT !.kind = "HANGUP", !.phase = "notification",
                              !.peer = senderId, !.call = ref])
     ELSE handleRemoteHangup(s, senderId)

\* a HANGUP case that gives up when the insert into notifications failed
onHangupNotificationGivesUp(s, i, ok) ==
  IF ok
  THEN [insert(s, missedCallMessage(s.ops[i].peer)) EXCEPT
          !.ops[i].phase = "message",
          !.missedNotifs = IF s.ops[i].call # None THEN @ + 1 ELSE @]
  ELSE DropOp(s, i)

\* the insert into notifications settled; an error is only logged, and the
\* insert into messages is called
onHangupNotification(s, i, ok) ==
  [insert(s, missedCallMessage(s.ops[i].peer)) EXCEPT
     !.ops[i].phase = "message",
     !.missedNotifs = IF ok /\ s.ops[i].call # None THEN @ + 1 ELSE @]

\* the insert into messages settled, the rest of the case runs
onHangupMessage(s, i, ok) ==
  LET s1 == [DropOp(s, i) EXCEPT
               !.missedMsgs = IF ok /\ s.ops[i].call # None THEN @ + 1 ELSE @,
               !.incomingCall = None]
  IN handleRemoteHangup(s1, s.ops[i].peer)

\* the broadcast callback up to its first await; CANDIDATE changes nothing
\* the store keeps and catches its own error
\* the broadcast callback without its two filters
onSignalUnfiltered(s, type, senderId, recipientId, sdp) ==
  IF type = "OFFER" THEN onOffer(s, senderId, sdp)
  ELSE IF type = "ANSWER" THEN onAnswer(s, senderId)
  ELSE IF type = "HANGUP" THEN onHangup(s, senderId)
  ELSE s

onSignal(s, type, senderId, recipientId, sdp) ==
  IF recipientId # Undefined /\ recipientId # Me /\ type # "USER_ONLINE"
  THEN s
  ELSE IF senderId = Me THEN s
  ELSE IF type = "OFFER" THEN onOffer(s, senderId, sdp)
  ELSE IF type = "ANSWER" THEN onAnswer(s, senderId)
  ELSE IF type = "HANGUP" THEN onHangup(s, senderId)
  ELSE s

\* the subscribe callback; the announce it schedules is sent with it
subscribeStatus(s, status) ==
  IF status = "SUBSCRIBED"
  THEN sendSignal([s EXCEPT !.isSignalingConnectedRef = TRUE],
                  "USER_ONLINE", Undefined)
  ELSE [s EXCEPT !.isSignalingConnectedRef = FALSE]

\* a render, then its effects: the refs are synced, and when currentUser
\* changed the signaling effect is torn down
render(s) ==
  [s EXCEPT !.rendered = Snapshot(s),
            !.isSignalingConnectedRef =
               IF s.rendered.currentUser # s.currentUser THEN FALSE ELSE @]

Init ==
  /\ currentUser \in BOOLEAN
  /\ incomingCall = None
  /\ isInCall = FALSE
  /\ activeCallData = None
  /\ localStream = 0
  /\ remoteStreams = {}
  /\ isScreenSharing = FALSE
  /\ isMicOn = FALSE
  /\ isCameraOn = FALSE
  /\ rendered = [currentUser |-> currentUser, incomingCall |-> None,
                 isInCall |-> FALSE, activeCallData |-> None,
                 localStream |-> 0, isScreenSharing |-> FALSE,
                 isMicOn |-> FALSE, isCameraOn |-> FALSE]
  /\ peerConnectionsRef = [r \in Remotes |-> "none"]
  /\ isSignalingConnectedRef = FALSE
  /\ streams = [i \in StreamIds |-> FreeStream]
  /\ tracks = [t \in TrackIds |-> FreeTrack]
  /\ ops = <<>>
  /\ missedNotifs = 0
  /\ missedMsgs = 0
  /\ unrendered = 0
  /\ toggled = 0
  /\ Alone

\* ---- actions ----

\* the bounds: what a step may leave suspended, counted and listed
Fits(s) ==
  /\ IF \A k \in DOMAIN s.ops : s.ops[k].kind = "HANGUP"
     THEN Len(s.ops) <= MaxHangups
     ELSE Len(s.ops) <= MaxOps
  /\ s.missedNotifs <= MaxRecords
  /\ s.missedMsgs <= MaxRecords
  /\ IF s.activeCallData = None THEN TRUE
     ELSE Len(s.activeCallData[1]) <= MaxParticipants

\* a handler runs on a state that is at most MaxStale steps ahead of the
\* render its closures and refs come from
Ready == unrendered <= MaxStale

Do(s) == Ready /\ \E e \in {s} : Fits(e) /\ Set(e)

IsAt(i, kind, phase) == ops[i].kind = kind /\ ops[i].phase = phase

\* a capture can only succeed while the heaps have room
MayCapture(ok) == IF ok THEN CanCapture(Cur) ELSE TRUE

Render ==
  /\ rendered # Snapshot(Cur)
  /\ Set(render(Begin))

SubscribeStatus(status) ==
  /\ rendered.currentUser
  /\ Do(subscribeStatus(Begin, status))

Login == Do(login(Begin))

Logout == Do(logout(Begin))

LogoutDone(i) ==
  /\ IsAt(i, "logout", "update")
  /\ Do(logoutRest(DropOp(Begin, i)))

StartGroupCall(recipientIds) == Do(startGroupCall(Begin, recipientIds))

StartGetUserMediaDone(i, ok) ==
  /\ IsAt(i, "startGroupCall", "getUserMedia")
  /\ MayCapture(ok)
  /\ Do(startGroupCallMedia(Begin, i, ok))

StartCreateOfferDone(i, p, ok) ==
  /\ IsAt(i, "startGroupCall", "createOffer")
  /\ p \in DOMAIN ops[i].pend
  /\ Do(startGroupCallOffer(Begin, i, p, ok))

AddToCall(recipientId) == Do(addToCall(Begin, recipientId))

AddGetUserMediaDone(i, ok) ==
  /\ IsAt(i, "addToCall", "getUserMedia")
  /\ MayCapture(ok)
  /\ Do(addToCallMedia(Begin, i, ok))

AddCreateOfferDone(i, ok) ==
  /\ IsAt(i, "addToCall", "createOffer")
  /\ Do(addToCallOffer(Begin, i, ok))

AcceptIncomingCall == Do(acceptIncomingCall(Begin))

AcceptGetUserMediaDone(i, ok) ==
  /\ IsAt(i, "acceptIncomingCall", "getUserMedia")
  /\ MayCapture(ok)
  /\ Do(acceptIncomingCallMedia(Begin, i, ok))

AcceptCreateAnswerDone(i, ok) ==
  /\ IsAt(i, "acceptIncomingCall", "createAnswer")
  /\ Do(acceptIncomingCallAnswer(Begin, i, ok))

RejectIncomingCall == Do(rejectIncomingCall(Begin))

EndCall == Do(endCall(Begin))

\* a broadcast reaches the callback of a subscribed channel
Receive(type, senderId, recipientId, sdp) ==
  /\ rendered.currentUser
  /\ isSignalingConnectedRef
  /\ Do(onSignal(Begin, type, senderId, recipientId, sdp))

OfferCreateAnswerDone(i, ok) ==
  /\ IsAt(i, "OFFER", "createAnswer")
  /\ Do(onOfferAnswer(Begin, i, ok))

AnswerSetRemoteDescriptionDone(i, ok) ==
  /\ IsAt(i, "ANSWER", "setRemoteDescription")
  /\ Do(onAnswerSet(Begin, i, ok))

InsertNotificationDone(i, ok) ==
  /\ IsAt(i, "HANGUP", "notification")
  /\ Do(onHangupNotification(Begin, i, ok))

InsertMessageDone(i, ok) ==
  /\ IsAt(i, "HANGUP", "message")
  /\ Do(onHangupMessage(Begin, i, ok))

Next ==
  \/ Render
  \/ \E status \in {"SUBSCRIBED", "CLOSED"} : SubscribeStatus(status)
  \/ Login
  \/ Logout
  \/ \E i \in DOMAIN ops : LogoutDone(i)
  \/ \E recipientIds \in RecipientLists : StartGroupCall(recipientIds)
  \/ \E i \in DOMAIN ops, ok \in BOOLEAN : StartGetUserMediaDone(i, ok)
  \/ \E i \in DOMAIN ops, p \in 1..MaxRecipients, ok \in BOOLEAN :
       StartCreateOfferDone(i, p, ok)
  \/ \E recipientId \in Remotes : AddToCall(recipientId)
  \/ \E i \in DOMAIN ops, ok \in BOOLEAN : AddGetUserMediaDone(i, ok)
  \/ \E i \in DOMAIN ops, ok \in BOOLEAN : AddCreateOfferDone(i, ok)
  \/ AcceptIncomingCall
  \/ \E i \in DOMAIN ops, ok \in BOOLEAN : AcceptGetUserMediaDone(i, ok)
  \/ \E i \in DOMAIN ops, ok \in BOOLEAN : AcceptCreateAnswerDone(i, ok)
  \/ RejectIncomingCall
  \/ EndCall
  \/ \E type \in SignalTypes, senderId \in Users,
        recipientId \in Recipients, sdp \in Sdps :
       Receive(type, senderId, recipientId, sdp)
  \/ \E i \in DOMAIN ops, ok \in BOOLEAN : OfferCreateAnswerDone(i, ok)
  \/ \E i \in DOMAIN ops, ok \in BOOLEAN : AnswerSetRemoteDescriptionDone(i, ok)
  \/ \E i \in DOMAIN ops, ok \in BOOLEAN : InsertNotificationDone(i, ok)
  \/ \E i \in DOMAIN ops, ok \in BOOLEAN : InsertMessageDone(i, ok)

Spec == Init /\ [][Next]_vars

\* ---- the phases of the call state machine ----
activeParticipants == IF activeCallData = None THEN <<>> ELSE activeCallData[1]
Active == isInCall
IncomingPending == incomingCall # None /\ ~isInCall
Idle == incomingCall = None /\ ~isInCall

\* the closures and refs are those of the current state
InSync == rendered = Snapshot(Cur)
\* the signaling callback is registered and the channel delivers
Receiving == rendered.currentUser /\ isSignalingConnectedRef
\* the step that leads to e is one the bounds allow
Takes(e) == Ready /\ Fits(e)
NoEntries(s) == \A r \in Remotes : s.peerConnectionsRef[r] = "none"

\* ---- media toggles ----
\* The tracks of one kind on a stream.  A camera track is a video track
\* whose label has no 'screen' and whose settings have no displaySurface;
\* a screen track is one that has.
KindIn(s, sid, kinds) ==
  IF sid = 0 THEN {}
  ELSE {t \in s.streams[sid].tracks : s.tracks[t].kind \in kinds}

\* track.stop() and localStream.removeTrack(track) for every track of ts
stopAndRemove(s, sid, ts) ==
  [s EXCEPT
     !.tracks = [t \in DOMAIN s.tracks |->
                   IF t \in ts THEN [@[t] EXCEPT !.live = FALSE] ELSE @[t]],
     !.streams[sid].tracks = @ \ ts]

\* setLocalStream(new MediaStream(localStream.getTracks()))
copyStream(s, sid) ==
  LET new == FreeStreamId(s)
  IN [s EXCEPT !.streams[new] = [used |-> TRUE, tracks |-> s.streams[sid].tracks],
               !.localStream = new]

\* the track goes to the video sender of every registered connection
attachAll(s, t) ==
  [s EXCEPT !.attached =
     @ \cup {<<r, t>> : r \in {x \in Remotes : s.peerConnectionsRef[x] # "none"}}]

\* sender.replaceTrack(null) on the video transceiver, where there is one,
\* of every registered connection; no sender is removed
nullAll(s) ==
  [s EXCEPT !.nulled =
     @ \cup {x \in Remotes : s.peerConnectionsRef[x] # "none"}]

\* the registry is iterated in the order B, C
EntryOrder == <<"B", "C">>

RECURSIVE FirstEntry(_, _)
\* the remote ids of ids from the first one that has a registered connection
FirstEntry(s, ids) ==
  IF ids = <<>> THEN <<>>
  ELSE IF s.peerConnectionsRef[Head(ids)] # "none" THEN ids
       ELSE FirstEntry(s, Tail(ids))

\* the loop of renegotiate moves to the next registered connection and
\* waits for its createOffer; with none left the function that awaited
\* renegotiate goes on, which ends every function but a toggleCamera that
\* was inside stopScreenSharing
renegotiateLast(s, op, ids) ==
  LET rest == FirstEntry(s, ids)
  IN IF rest = <<>> THEN s
     ELSE PushOp(s, [op EXCEPT !.phase = "createOffer", !.peer = Head(rest),
                               !.pc = "registry", !.ids = Tail(rest),
                               !.after = ""])

\* toggleCamera that shows the camera locally and hands it to no connection
toggleCameraAttachLocalOnly(s, op) ==
  LET s1 == [s EXCEPT !.streams[op.stream].tracks = @ \cup {op.track},
                      !.isCameraOn = TRUE]
  IN renegotiateLast(copyStream(s1, op.stream), [op EXCEPT !.track = 0],
                     EntryOrder)

\* toggleCamera from localStream.addTrack(videoTrack) on
toggleCameraAttach(s, op) ==
  LET s1 == [s EXCEPT !.streams[op.stream].tracks = @ \cup {op.track},
                      !.isCameraOn = TRUE]
      s2 == copyStream(attachAll(s1, op.track), op.stream)
  IN renegotiateLast(s2, [op EXCEPT !.track = 0], EntryOrder)

renegotiateNext(s, op, ids) ==
  LET rest == FirstEntry(s, ids)
  IN IF rest = <<>>
     THEN IF op.after = "camera" THEN toggleCameraAttach(s, op) ELSE s
     ELSE PushOp(s, [op EXCEPT !.phase = "createOffer", !.peer = Head(rest),
                               !.pc = "registry", !.ids = Tail(rest)])

\* renegotiate as called from the closure that op stands for
renegotiate(s, op) ==
  IF op.stream = 0
  THEN IF op.after = "camera" THEN toggleCameraAttach(s, op) ELSE s
  ELSE renegotiateNext(s, op, EntryOrder)

\* renegotiate whose loop ends at the first connection that fails
renegotiateStepAborts(s, i, ok) ==
  LET op == s.ops[i]
      s1 == offerSettled(DropOp(s, i), op.peer, op.pc, ok)
  IN IF ok THEN renegotiateNext(s1, op, op.ids)
     ELSE renegotiateNext(s1, op, <<>>)

\* createOffer and setLocalDescription of one connection settled inside
\* renegotiate: the OFFER is sent, or the catch logs, and the loop goes on
renegotiateStep(s, i, ok) ==
  LET op == s.ops[i]
      s1 == offerSettled(DropOp(s, i), op.peer, op.pc, ok)
  IN renegotiateNext(s1, op, op.ids)

\* toggleMic that enables the microphone without the renegotiation round
toggleMicNoRenegotiate(s) ==
  LET sid == s.rendered.localStream
      audioTracks == KindIn(s, sid, {"audio"})
      newStatus == ~s.rendered.isMicOn
  IN IF sid = 0 THEN s
     ELSE IF audioTracks = {} THEN s
     ELSE [s EXCEPT
             !.tracks = [t \in DOMAIN s.tracks |->
                           IF t \in audioTracks
                           THEN [@[t] EXCEPT !.enabled = newStatus]
                           ELSE @[t]],
             !.isMicOn = newStatus]

toggleMic(s) ==
  LET sid == s.rendered.localStream
      audioTracks == KindIn(s, sid, {"audio"})
      newStatus == ~s.rendered.isMicOn
  IN IF sid = 0 THEN s
     ELSE IF audioTracks = {} THEN s
     ELSE LET s1 == [s EXCEPT
                       !.tracks = [t \in DOMAIN s.tracks |->
                                     IF t \in audioTracks
                                     THEN [@[t] EXCEPT !.enabled = newStatus]
                                     ELSE @[t]],
                       !.isMicOn = newStatus]
          IN IF newStatus
             THEN renegotiate(s1, [NoOp EXCEPT !.kind = "toggleMic",
                                               !.stream = sid])
             ELSE s1

\* stopScreenSharing as called from the closure that op stands for
stopScreenSharing(s, op) ==
  IF NoEntries(s) \/ op.stream = 0
  THEN IF op.after = "camera" THEN toggleCameraAttach(s, op) ELSE s
  ELSE LET s1 == stopAndRemove(s, op.stream,
                               KindIn(s, op.stream, {"screen"}))
           s2 == [s1 EXCEPT !.isScreenSharing = FALSE, !.isCameraOn = FALSE]
       IN renegotiate(copyStream(s2, op.stream), op)

\* toggleCamera whose off branch stops every video track of the stream
toggleCameraOffStopsVideo(s) ==
  LET sid == s.rendered.localStream
  IN IF sid = 0 THEN s
     ELSE IF s.rendered.isCameraOn
     THEN LET s1 == stopAndRemove(s, sid, KindIn(s, sid, {"camera", "screen"}))
          IN copyStream(nullAll([s1 EXCEPT !.isCameraOn = FALSE]), sid)
     ELSE PushOp(s, [NoOp EXCEPT !.kind = "toggleCamera",
                                 !.phase = "getUserMedia",
                                 !.stream = sid,
                                 !.wasOn = s.rendered.isScreenSharing])

toggleCamera(s) ==
  LET sid == s.rendered.localStream
  IN IF sid = 0 THEN s
     ELSE IF s.rendered.isCameraOn
     THEN LET s1 == stopAndRemove(s, sid, KindIn(s, sid, {"camera"}))
          IN copyStream(nullAll([s1 EXCEPT !.isCameraOn = FALSE]), sid)
     ELSE PushOp(s, [NoOp EXCEPT !.kind = "toggleCamera",
                                 !.phase = "getUserMedia",
                                 !.stream = sid,
                                 !.wasOn = s.rendered.isScreenSharing])

\* getUserMedia({video: true}) of toggleCamera settled
toggleCameraMedia(s, i, ok) ==
  LET op == s.ops[i]
      s1 == DropOp(s, i)
      t == FreeTrackId(s1)
      s2 == [s1 EXCEPT !.tracks[t] =
               [kind |-> "camera", enabled |-> TRUE, live |-> TRUE]]
  IN IF ~ok THEN s1
     ELSE IF op.wasOn
          THEN stopScreenSharing(s2, [op EXCEPT !.track = t,
                                                !.after = "camera"])
          ELSE toggleCameraAttach(s2, [op EXCEPT !.track = t])

toggleScreenShare(s) ==
  LET sid == s.rendered.localStream
  IN IF NoEntries(s) \/ sid = 0 THEN s
     ELSE IF s.rendered.isScreenSharing
     THEN stopScreenSharing(s, [NoOp EXCEPT !.kind = "stopScreenSharing",
                                            !.stream = sid])
     ELSE PushOp(s, [NoOp EXCEPT !.kind = "toggleScreenShare",
                                 !.phase = "getDisplayMedia",
                                 !.stream = sid,
                                 !.wasOn = s.rendered.isCameraOn])

\* getDisplayMedia of toggleScreenShare settled
toggleScreenShareMedia(s, i, ok) ==
  LET op == s.ops[i]
      s1 == DropOp(s, i)
      t == FreeTrackId(s1)
      s2 == [s1 EXCEPT !.tracks[t] =
               [kind |-> "screen", enabled |-> TRUE, live |-> TRUE]]
      s3 == IF op.wasOn
            THEN [stopAndRemove(s2, op.stream,
                                KindIn(s2, op.stream, {"camera", "screen"}))
                    EXCEPT !.isCameraOn = FALSE]
            ELSE s2
      s4 == [s3 EXCEPT !.streams[op.stream].tracks = @ \cup {t}]
      s5 == [attachAll(s4, t) EXCEPT !.isScreenSharing = TRUE]
  IN IF ~ok THEN s1
     ELSE renegotiate(copyStream(s5, op.stream), op)

\* ---- the store during a call, with the media toggles ----
\* a call with B, or with B and C, set up and answered: what startGroupCall
\* and the ANSWERs of the participants leave behind
InCallWith(participantIds) ==
  /\ currentUser = TRUE
  /\ incomingCall = None
  /\ isInCall = TRUE
  /\ activeCallData = Some(participantIds)
  /\ localStream = 1
  /\ remoteStreams = {}
  /\ isScreenSharing = FALSE
  /\ isMicOn = FALSE
  /\ isCameraOn = FALSE
  /\ rendered = [currentUser |-> TRUE, incomingCall |-> None,
                 isInCall |-> TRUE, activeCallData |-> Some(participantIds),
                 localStream |-> 1, isScreenSharing |-> FALSE,
                 isMicOn |-> FALSE, isCameraOn |-> FALSE]
  /\ peerConnectionsRef =
       [r \in Remotes |->
          IF Includes(participantIds, r) THEN "stable" ELSE "none"]
  /\ isSignalingConnectedRef = TRUE
  /\ streams = [i \in MediaStreamIds |->
                  IF i = 1 THEN [used |-> TRUE, tracks |-> {1}]
                  ELSE FreeStream]
  /\ tracks = [t \in MediaTrackIds |->
                 IF t = 1
                 THEN [kind |-> "audio", enabled |-> FALSE, live |-> TRUE]
                 ELSE FreeTrack]
  /\ ops = <<>>
  /\ missedNotifs = 0
  /\ missedMsgs = 0
  /\ unrendered = 0
  /\ toggled = 0
  /\ Alone

InitMedia == InCallWith(<<"B">>) \/ InCallWith(<<"B", "C">>)

FitsMedia(s) ==
  /\ Len(s.ops) <= MaxToggles
  /\ s.toggled <= MaxToggled
  /\ IF s.activeCallData = None THEN TRUE
     ELSE Len(s.activeCallData[1]) <= MaxParticipants

\* a toggle runs while the heaps have room for the stream and the track it
\* may create
DoMedia(s) == Ready /\ \E e \in {s} : FitsMedia(e) /\ Set(e)
TakesMedia(e) == Ready /\ FitsMedia(e)

\* a toggle that did something is counted
Counted(e) == IF e = Begin THEN e ELSE [e EXCEPT !.toggled = @ + 1]

ToggleMic == CanCapture(Cur) /\ DoMedia(Counted(toggleMic(Begin)))

ToggleCamera == CanCapture(Cur) /\ DoMedia(Counted(toggleCamera(Begin)))

ToggleCameraMediaDone(i, ok) ==
  /\ IsAt(i, "toggleCamera", "getUserMedia")
  /\ CanCapture(Cur)
  /\ DoMedia(toggleCameraMedia(Begin, i, ok))

ToggleScreenShare ==
  CanCapture(Cur) /\ DoMedia(Counted(toggleScreenShare(Begin)))

ToggleScreenShareMediaDone(i, ok) ==
  /\ IsAt(i, "toggleScreenShare", "getDisplayMedia")
  /\ CanCapture(Cur)
  /\ DoMedia(toggleScreenShareMedia(Begin, i, ok))

RenegotiateDone(i, ok) ==
  /\ ops[i].phase = "createOffer"
  /\ CanCapture(Cur)
  /\ DoMedia(renegotiateStep(Begin, i, ok))

EndCallMedia == DoMedia(endCall(Begin))

ReceiveHangup(senderId) ==
  /\ rendered.currentUser
  /\ isSignalingConnectedRef
  /\ DoMedia(onSignal(Begin, "HANGUP", senderId, Me, 1))

NextMedia ==
  \/ Render
  \/ ToggleMic
  \/ ToggleCamera
  \/ \E i \in DOMAIN ops, ok \in BOOLEAN : ToggleCameraMediaDone(i, ok)
  \/ ToggleScreenShare
  \/ \E i \in DOMAIN ops, ok \in BOOLEAN : ToggleScreenShareMediaDone(i, ok)
  \/ \E i \in DOMAIN ops, ok \in BOOLEAN : RenegotiateDone(i, ok)
  \/ EndCallMedia
  \/ \E senderId \in Remotes : ReceiveHangup(senderId)

SpecMedia == InitMedia /\ [][NextMedia]_vars

\* ---- C1 ----
\* C1: in every reachable state, whatever local actions and envelopes led to
\* it, isInCall is true if and only if the participant list is non-empty.
C1_ActiveIffParticipants == isInCall <=> (activeParticipants # <<>>)

\* a call with two participants was torn down and the screen still shows it
C1_Witness ==
  /\ ~isInCall
  /\ activeParticipants = <<>>
  /\ rendered.isInCall
  /\ rendered.activeCallData # None
  /\ Len(rendered.activeCallData[1]) = 2

\* ---- C2 ----
\* C2: in every reachable state a stored incoming call implies that the user
\* is not in a call: isInCall is false and there are no participants.
C2_OfferOnlyWhenPending ==
  incomingCall # None => (~isInCall /\ activeCallData = None)

\* ---- C3 ----
\* C3: startGroupCall (startCall with one recipient) invoked by a logged-in
\* user whose phase is Active or IncomingPending, from closures of the current
\* state, leaves isInCall, the participants, the stored incoming call and
\* the registry unchanged and sends nothing.
C3_StartOnlyFromIdle ==
  \A recipientIds \in RecipientLists :
    (InSync /\ currentUser /\ ~Idle) =>
      LET e == startGroupCall(Begin, recipientIds)
      IN Takes(e) =>
           /\ e.isInCall = isInCall
           /\ e.activeCallData = activeCallData
           /\ e.incomingCall = incomingCall
           /\ e.peerConnectionsRef = peerConnectionsRef
           /\ e.outbox = <<>>

\* ---- C4 ----
\* C4: while an incoming call from s1 is pending, an OFFER from another
\* sender s2 leaves the stored incoming call as it is.
C4_SecondOfferIgnored ==
  \A s1 \in Remotes, s2 \in Remotes, sdp \in Sdps :
    (InSync /\ Receiving /\ IncomingPending /\ s1 # s2
       /\ incomingCall[1].callerId = s1) =>
      LET e == onSignal(Begin, "OFFER", s2, Me, sdp)
      IN Takes(e) => e.incomingCall = incomingCall

\* ---- C5 ----
\* startGroupCall([r]) has made the user Active: in a call with r alone, a
\* connection for r registered, its offer still being created, nothing sent
Started(e, r) ==
  /\ e.isInCall
  /\ e.activeCallData = Some(<<r>>)
  /\ e.peerConnectionsRef[r] = "stable"
  /\ e.outbox = <<>>
  /\ e.ops # <<>>
  /\ LET op == e.ops[Len(e.ops)]
     IN /\ op.kind = "startGroupCall"
        /\ op.phase = "createOffer"
        /\ op.pend = <<[to |-> r, pc |-> "registry"]>>

\* C5: startCall(r) by an idle logged-in user only asks for the microphone
\* when there is no local stream; once the microphone is granted the user is
\* Active with participants [r] and a registry entry for r, before any OFFER
\* is sent and without any ANSWER; and when the offer is created on that
\* entry with the channel subscribed, exactly one OFFER addressed to r goes
\* out and the call stays as it is.
C5_StartCallFromIdle ==
  \A r \in Remotes :
    /\ (InSync /\ Idle /\ currentUser) =>
         LET e == startGroupCall(Begin, <<r>>)
         IN Takes(e) =>
              IF localStream # 0 THEN Started(e, r)
              ELSE /\ e.ops = Append(ops, [NoOp EXCEPT
                                             !.kind = "startGroupCall",
                                             !.phase = "getUserMedia",
                                             !.ids = <<r>>])
                   /\ e.outbox = <<>>
                   /\ Snapshot(e) = Snapshot(Cur)
    /\ \A i \in DOMAIN ops :
         (IsAt(i, "startGroupCall", "getUserMedia") /\ ops[i].ids = <<r>>
            /\ CanCapture(Cur)) =>
           LET e == startGroupCallMedia(Begin, i, TRUE)
           IN Takes(e) => Started(e, r) /\ e.localStream # 0
    /\ \A i \in DOMAIN ops :
         (IsAt(i, "startGroupCall", "createOffer")
            /\ ops[i].pend = <<[to |-> r, pc |-> "registry"]>>
            /\ isSignalingConnectedRef
            /\ isInCall /\ activeCallData = Some(<<r>>)) =>
           LET e == startGroupCallOffer(Begin, i, 1, TRUE)
           IN Takes(e) =>
                /\ e.outbox = <<[type |-> "OFFER", senderId |-> Me,
                                 recipientId |-> r]>>
                /\ e.isInCall
                /\ e.activeCallData = Some(<<r>>)
                /\ e.peerConnectionsRef[r] = "have-local-offer"
                /\ e.ops = RemoveAt(ops, i)

\* the OFFER to B is out and the screen has not yet shown the call
C5_Witness ==
  /\ isInCall
  /\ activeCallData = Some(<<"B">>)
  /\ peerConnectionsRef["B"] = "have-local-offer"
  /\ isSignalingConnectedRef
  /\ ops = <<>>
  /\ ~rendered.isInCall
  /\ rendered.incomingCall = None

C7_RejectedCallStaysRejected ==
  /\ (InSync /\ IncomingPending /\ currentUser /\ isSignalingConnectedRef) =>
       LET e == rejectIncomingCall(Begin)
       IN Takes(e) =>
            /\ e.outbox = <<[type |-> "HANGUP", senderId |-> Me,
                             recipientId |-> incomingCall[1].callerId]>>
            /\ e.incomingCall = None
            /\ ~e.isInCall
            /\ e.peerConnectionsRef = peerConnectionsRef
            /\ e.localStream = localStream
            /\ e.tracks = tracks
  /\ \A i \in DOMAIN ops :
       (ops[i].kind = "acceptIncomingCall" /\ ops[i].rejected) =>
         ops[i].phase = "getUserMedia"

C9_OneRecordPerMissedCall == missedNotifs <= 1 /\ missedMsgs <= 1

\* ---- C10 ----
\* C10: an ANSWER applied to a connection that is not waiting for one (it
\* was answered before, or closed by a hang-up meanwhile) ends without an
\* unhandled rejection and leaves the participants as they are; so do an
\* ANSWER, a CANDIDATE and a HANGUP whose sender has no registry entry.
C10_StrayAnswerIsHarmless ==
  /\ \A i \in DOMAIN ops :
       (IsAt(i, "ANSWER", "setRemoteDescription")
          /\ SigOf(Cur, ops[i].peer, ops[i].pc) # "have-local-offer") =>
         LET e == onAnswerSet(Begin, i, TRUE)
         IN Takes(e) => ~e.raised /\ e.activeCallData = activeCallData
  /\ \A type \in {"ANSWER", "CANDIDATE", "HANGUP"}, senderId \in Remotes,
        sdp \in Sdps :
       (InSync /\ Receiving /\ peerConnectionsRef[senderId] = "none") =>
         LET e == onSignal(Begin, type, senderId, Me, sdp)
         IN Takes(e) => ~e.raised /\ e.activeCallData = activeCallData

\* ---- C12 ----
NoLiveTrack(s) == \A t \in DOMAIN s.tracks : ~s.tracks[t].live

\* C12: once the user is back to Idle, with nothing running and the screen
\* up to date, the local stream is cleared and no track acquired for a call
\* is live; and the teardown by endCall loses no live track.
C12_NoLiveTrackWhenIdle ==
  /\ (Idle /\ InSync /\ ops = <<>>) => (localStream = 0 /\ NoLiveTrack(Cur))
  /\ LET e == Gc(endCall(Begin))
     IN (Takes(e) /\ InSync) => e.leakedTracks = 0

\* ---- C13 ----
\* the envelopes a step sent, as type and recipient, in order
Sent(e) == [k \in DOMAIN e.outbox |->
              <<e.outbox[k].type, e.outbox[k].recipientId>>]
HangupTo(ids) == [k \in DOMAIN ids |-> <<"HANGUP", ids[k]>>]

\* C13: endCall in an Active call sends one HANGUP to every participant when
\* the transport is connected and none when it is not, and in both cases
\* tears down: Idle, no participants, empty registry, no remote stream, the
\* local stream cleared with its tracks stopped, all flags off.
C13_EndCallTearsDown ==
  LET e == endCall(Begin)
  IN (Takes(e) /\ Active /\ InSync) =>
       /\ Sent(e) = IF isSignalingConnectedRef
                    THEN HangupTo(activeParticipants) ELSE <<>>
       /\ ~e.raised
       /\ ~e.isInCall /\ e.incomingCall = None
       /\ e.activeCallData = None
       /\ NoEntries(e)
       /\ e.remoteStreams = {}
       /\ e.localStream = 0 /\ NoLiveTrack(e)
       /\ ~e.isMicOn /\ ~e.isCameraOn /\ ~e.isScreenSharing

\* ---- C14 ----
\* C14: acceptIncomingCall with no stored offer does nothing. With an offer
\* from r stored and shown, it asks for the microphone and changes nothing
\* else; when the microphone is granted while the offer is still pending, a
\* connection for r is registered and the local stream set, nothing sent
\* yet; when the answer is created on that connection with the channel
\* subscribed, exactly one ANSWER addressed to r goes out, the user is in a
\* call with [r] and the stored offer is cleared.
C14_AcceptIncomingCall ==
  /\ (InSync /\ incomingCall = None) =>
       LET e == acceptIncomingCall(Begin)
       IN Takes(e) =>
            /\ Snapshot(e) = Snapshot(Cur)
            /\ e.ops = ops
            /\ e.outbox = <<>>
            /\ e.peerConnectionsRef = peerConnectionsRef
            /\ e.streams = streams /\ e.tracks = tracks
  /\ (InSync /\ IncomingPending /\ currentUser) =>
       LET e == acceptIncomingCall(Begin)
       IN Takes(e) =>
            /\ e.ops = Append(ops, [NoOp EXCEPT
                                      !.kind = "acceptIncomingCall",
                                      !.phase = "getUserMedia",
                                      !.call = incomingCall])
            /\ e.outbox = <<>>
            /\ Snapshot(e) = Snapshot(Cur)
            /\ e.peerConnectionsRef = peerConnectionsRef
  /\ \A i \in DOMAIN ops :
       (IsAt(i, "acceptIncomingCall", "getUserMedia")
          /\ IncomingPending /\ ops[i].call = incomingCall
          /\ CanCapture(Cur)) =>
         LET e == acceptIncomingCallMedia(Begin, i, TRUE)
             r == incomingCall[1].callerId
         IN Takes(e) =>
              /\ e.peerConnectionsRef[r] = "stable"
              /\ e.localStream # 0
              /\ e.outbox = <<>>
              /\ e.incomingCall = incomingCall
              /\ ~e.isInCall
              /\ Len(e.ops) = Len(ops)
              /\ e.ops[Len(e.ops)] = [ops[i] EXCEPT !.phase = "createAnswer",
                                                    !.peer = r,
                                                    !.pc = "registry"]
  /\ \A i \in DOMAIN ops :
       (IsAt(i, "acceptIncomingCall", "createAnswer")
          /\ IncomingPending /\ ops[i].call = incomingCall
          /\ ops[i].pc = "registry"
          /\ peerConnectionsRef[ops[i].peer] # "none"
          /\ isSignalingConnectedRef) =>
         LET e == acceptIncomingCallAnswer(Begin, i, TRUE)
             r == incomingCall[1].callerId
         IN Takes(e) =>
              /\ e.outbox = <<[type |-> "ANSWER", senderId |-> Me,
                               recipientId |-> r]>>
              /\ e.isInCall
              /\ e.activeCallData = Some(<<r>>)
              /\ e.incomingCall = None
              /\ e.peerConnectionsRef[r] # "none"
              /\ e.ops = RemoveAt(ops, i)

\* the call from B was accepted and answered; the screen still shows the
\* incoming call
C14_Witness ==
  /\ isInCall
  /\ activeCallData = Some(<<"B">>)
  /\ incomingCall = None
  /\ peerConnectionsRef["B"] # "none"
  /\ localStream # 0
  /\ isSignalingConnectedRef
  /\ ops = <<>>
  /\ rendered.incomingCall # None
  /\ rendered.incomingCall[1].callerId = "B"
  /\ ~rendered.isInCall

\* ---- C16 ----
\* startGroupCall([r]) went on without a word to r: in a call with r alone, a
\* connection for r holding its local offer, nothing sent, nothing raised
StartedUnheard(e, r) ==
  /\ e.isInCall
  /\ e.activeCallData = Some(<<r>>)
  /\ e.peerConnectionsRef[r] = "have-local-offer"
  /\ e.outbox = <<>>
  /\ ~e.raised

\* C16: while the channel is not SUBSCRIBED, sendSignal changes nothing,
\* sends nothing and raises nothing, whatever the type and the recipient;
\* rejectIncomingCall and endCall send nothing; and startCall(r) goes on all
\* the same: the microphone granted, the user is in a call with [r], and the
\* offer created, the call stays as it is with no envelope sent.
C16_SilentWhileDisconnected ==
  ~isSignalingConnectedRef =>
    /\ \A type \in SignalTypes, recipientId \in Users \cup {Undefined} :
         sendSignal(Begin, type, recipientId) = Begin
    /\ LET e == rejectIncomingCall(Begin)
       IN Takes(e) => e.outbox = <<>> /\ ~e.raised
    /\ LET e == endCall(Begin)
       IN Takes(e) => e.outbox = <<>> /\ ~e.raised
    /\ \A r \in Remotes, i \in DOMAIN ops :
         /\ (IsAt(i, "startGroupCall", "getUserMedia") /\ ops[i].ids = <<r>>
               /\ CanCapture(Cur)) =>
              LET e == startGroupCallMedia(Begin, i, TRUE)
              IN Takes(e) => Started(e, r) /\ ~e.raised
         /\ (IsAt(i, "startGroupCall", "createOffer")
               /\ ops[i].pend = <<[to |-> r, pc |-> "registry"]>>
               /\ isInCall /\ activeCallData = Some(<<r>>)) =>
              LET e == startGroupCallOffer(Begin, i, 1, TRUE)
              IN Takes(e) => StartedUnheard(e, r) /\ e.ops = RemoveAt(ops, i)

\* a call to B was started and its offer created on a channel that never
\* delivered: the user is in the call, the screen does not show it yet
C16_Witness ==
  /\ ~isSignalingConnectedRef
  /\ StartedUnheard(Cur, "B")
  /\ ops = <<>>
  /\ ~rendered.isInCall
  /\ NoEntries([peerConnectionsRef |-> [peerConnectionsRef EXCEPT !["B"] = "none"]])

\* ---- C17 ----
\* the envelope is the user's own, or names a recipient who is someone else
NotForMe(senderId, recipientId) ==
  IF senderId = Me THEN TRUE
  ELSE recipientId # Undefined /\ recipientId # Me

\* C17: an envelope sent by the local user, or addressed to another user,
\* changes nothing: the stored offer, isInCall, the participants, the
\* registry, the remote streams, the missed-call records and everything
\* else stay as they are, no function is started and nothing is sent.
C17_ForeignEnvelopeIgnored ==
  \A type \in SignalTypes, senderId \in Users,
     recipientId \in Users \cup {Undefined}, sdp \in Sdps :
    (Receiving /\ NotForMe(senderId, recipientId)) =>
      onSignal(Begin, type, senderId, recipientId, sdp) = Begin

\* B's call is pending and shown; B's HANGUP addressed to C would start the
\* missed-call records if it were handled, and is ignored
C17_Witness ==
  /\ Receiving
  /\ InSync
  /\ incomingCall # None
  /\ incomingCall[1].callerId = "B"
  /\ Len(onHangup(Begin, "B").ops) = Len(ops) + 1
  /\ onSignal(Begin, "HANGUP", "B", "C", 1) = Begin

\* ---- C18 ----
\* every recipient is named once
Distinct(ids) == \A j, k \in DOMAIN ids : ids[j] = ids[k] => j = k

\* C18: no step that registers a connection leaves the one it replaces
\* open: startGroupCall, addToCall and acceptIncomingCall, called or resumed
\* after the microphone is granted, replace no open connection without
\* closing it, the recipients of a call being distinct.
C18_OnePeerConnectionPerRemote ==
  /\ \A recipientIds \in RecipientLists :
       LET e == startGroupCall(Begin, recipientIds)
       IN (Takes(e) /\ Distinct(recipientIds)) => e.leakedPcs = 0
  /\ \A recipientId \in Remotes :
       LET e == addToCall(Begin, recipientId)
       IN Takes(e) => e.leakedPcs = 0
  /\ \A i \in DOMAIN ops :
       /\ (IsAt(i, "startGroupCall", "getUserMedia") /\ CanCapture(Cur)
             /\ Distinct(ops[i].ids)) =>
            LET e == startGroupCallMedia(Begin, i, TRUE)
            IN Takes(e) => e.leakedPcs = 0
       /\ (IsAt(i, "addToCall", "getUserMedia") /\ CanCapture(Cur)) =>
            LET e == addToCallMedia(Begin, i, TRUE)
            IN Takes(e) => e.leakedPcs = 0
       /\ (IsAt(i, "acceptIncomingCall", "getUserMedia")
             /\ CanCapture(Cur)) =>
            LET e == acceptIncomingCallMedia(Begin, i, TRUE)
            IN Takes(e) => e.leakedPcs = 0

\* ---- C11 ----
VideoTracks(s) == KindIn(s, s.localStream, {"camera", "screen"})

\* C11: in every state of a call, however toggleCamera and toggleScreenShare
\* are interleaved and whichever of them is waiting for its capture, the
\* local stream holds at most one video track, camera or screen.
C11_OneVideoTrack == Cardinality(VideoTracks(Cur)) <= 1

\* ---- C19 ----
\* C19: during a call, once the screen is up to date, isMicOn is true only
\* if the local stream has an enabled audio track, isCameraOn only if it has
\* a camera track, isScreenSharing only if it has a screen track.
C19_FlagsAgreeWithTracks ==
  (InSync /\ isInCall) =>
    /\ isMicOn =>
         \E t \in KindIn(Cur, localStream, {"audio"}) : tracks[t].enabled
    /\ isCameraOn => KindIn(Cur, localStream, {"camera"}) # {}
    /\ isScreenSharing => KindIn(Cur, localStream, {"screen"}) # {}

\* ---- C20 ----
Registered(s) == {r \in Remotes : s.peerConnectionsRef[r] # "none"}
Range(seq) == {seq[k] : k \in DOMAIN seq}
\* the remote ids renegotiate has still to offer to, the current one first
ToOffer(op) == {op.peer} \cup Range(op.ids)

\* C20: toggleCamera with the camera off, in a call shown on the screen,
\* asks for the camera and changes nothing else.  When the camera is
\* granted, screen sharing being off in the closure, the new camera track is
\* on the local stream, it is handed to the connection of every registered
\* participant, isCameraOn is set, and renegotiate starts with every
\* registered participant still to be offered to.  Each step of renegotiate
\* on an open connection, the channel subscribed, sends exactly one OFFER to
\* its participant and goes on to the registered ones that remain.
C20_CameraOnRenegotiates ==
  /\ (InSync /\ isInCall /\ localStream # 0 /\ ~isCameraOn
        /\ CanCapture(Cur)) =>
       LET e == toggleCamera(Begin)
       IN TakesMedia(e) =>
            /\ e.ops = Append(ops, [NoOp EXCEPT
                                      !.kind = "toggleCamera",
                                      !.phase = "getUserMedia",
                                      !.stream = localStream,
                                      !.wasOn = isScreenSharing])
            /\ Snapshot(e) = Snapshot(Cur)
            /\ e.outbox = <<>>
            /\ e.attached = {}
  /\ \A i \in DOMAIN ops :
       (IsAt(i, "toggleCamera", "getUserMedia") /\ ~ops[i].wasOn
          /\ isInCall /\ Registered(Cur) # {} /\ CanCapture(Cur)) =>
         LET e == toggleCameraMedia(Begin, i, TRUE)
             t == FreeTrackId(Cur)
         IN TakesMedia(e) =>
              /\ e.attached = {<<r, t>> : r \in Registered(Cur)}
              /\ e.tracks[t] = [kind |-> "camera", enabled |-> TRUE,
                                live |-> TRUE]
              /\ t \in e.streams[e.localStream].tracks
              /\ e.isCameraOn
              /\ e.outbox = <<>>
              /\ Len(e.ops) = Len(ops)
              /\ LET op == e.ops[Len(e.ops)]
                 IN /\ op.kind = "toggleCamera"
                    /\ op.phase = "createOffer"
                    /\ op.pc = "registry"
                    /\ Registered(Cur) \subseteq ToOffer(op)
  /\ \A i \in DOMAIN ops :
       (IsAt(i, "toggleCamera", "createOffer") /\ ops[i].pc = "registry"
          /\ ops[i].after = ""
          /\ peerConnectionsRef[ops[i].peer] # "none"
          /\ isSignalingConnectedRef /\ CanCapture(Cur)) =>
         LET e == renegotiateStep(Begin, i, TRUE)
             left == Registered(Cur) \cap Range(ops[i].ids)
         IN TakesMedia(e) =>
              /\ e.outbox = <<[type |-> "OFFER", senderId |-> Me,
                               recipientId |-> ops[i].peer]>>
              /\ e.peerConnectionsRef[ops[i].peer] = "have-local-offer"
              /\ e.isCameraOn = isCameraOn
              /\ e.localStream = localStream
              /\ IF left = {} THEN e.ops = RemoveAt(ops, i)
                 ELSE /\ Len(e.ops) = Len(ops)
                      /\ e.ops[Len(e.ops)].phase = "createOffer"
                      /\ left \subseteq ToOffer(e.ops[Len(e.ops)])

\* the camera was turned on in the call with B and C, by the only toggle so
\* far, and both were sent their OFFER
C20_Witness ==
  /\ isInCall
  /\ activeCallData = Some(<<"B", "C">>)
  /\ toggled = 1
  /\ isCameraOn
  /\ KindIn(Cur, localStream, {"camera"}) # {}
  /\ peerConnectionsRef["B"] = "have-local-offer"
  /\ peerConnectionsRef["C"] = "have-local-offer"
  /\ isSignalingConnectedRef
  /\ ops = <<>>

\* ---- C15 ----
\* the step that led to e left the call, the stored offer, the registry, the
\* local stream, its tracks and the three flags as they are, sent nothing
\* and handed no track to a connection
Aborted(e) ==
  /\ Snapshot(e) = Snapshot(Cur)
  /\ e.peerConnectionsRef = peerConnectionsRef
  /\ e.remoteStreams = remoteStreams
  /\ e.streams = streams
  /\ e.tracks = tracks
  /\ e.outbox = <<>>
  /\ e.attached = {}
  /\ ~e.raised

\* C15: when getUserMedia of startGroupCall or of acceptIncomingCall is
\* refused, the function ends there and nothing has changed; and a
\* toggleCamera or toggleScreenShare that turns its video on and is refused
\* the capture, at once or after other steps, leaves everything as it was.
C15_RefusedCaptureAborts ==
  /\ \A i \in DOMAIN ops :
       /\ IsAt(i, "startGroupCall", "getUserMedia") =>
            LET e == startGroupCallMedia(Begin, i, FALSE)
            IN Takes(e) => Aborted(e) /\ e.ops = RemoveAt(ops, i)
       /\ IsAt(i, "acceptIncomingCall", "getUserMedia") =>
            LET e == acceptIncomingCallMedia(Begin, i, FALSE)
            IN Takes(e) => Aborted(e) /\ e.ops = RemoveAt(ops, i)
       /\ IsAt(i, "toggleCamera", "getUserMedia") =>
            LET e == toggleCameraMedia(Begin, i, FALSE)
            IN Ready => Aborted(e) /\ e.ops = RemoveAt(ops, i)
       /\ IsAt(i, "toggleScreenShare", "getDisplayMedia") =>
            LET e == toggleScreenShareMedia(Begin, i, FALSE)
            IN Ready => Aborted(e) /\ e.ops = RemoveAt(ops, i)
  /\ ~rendered.isCameraOn =>
     LET e1 == toggleCamera(Begin)
     IN (Ready /\ e1.ops # ops) =>
          LET e == toggleCameraMedia(e1, Len(e1.ops), FALSE)
          IN Aborted(e1) /\ Aborted(e) /\ e.ops = ops
  /\ ~rendered.isScreenSharing =>
     LET e1 == toggleScreenShare(Begin)
     IN (Ready /\ e1.ops # ops) =>
          LET e == toggleScreenShareMedia(e1, Len(e1.ops), FALSE)
          IN Aborted(e1) /\ Aborted(e) /\ e.ops = ops

\* B's call is shown, acceptIncomingCall waits for the microphone, and the
\* refusal is a step the store can take
C15_Witness ==
  /\ IncomingPending
  /\ \E i \in DOMAIN ops :
       /\ IsAt(i, "acceptIncomingCall", "getUserMedia")
       /\ Takes(acceptIncomingCallMedia(Begin, i, FALSE))
       /\ acceptIncomingCallMedia(Begin, i, FALSE).ops = <<>>
  /\ incomingCall[1].callerId = "B"

\* ---- C21 ----
\* C21: an OFFER addressed to a user who is in a call, from a sender who is
\* not one of its participants, is dropped: the stored incoming call,
\* isInCall, the participants and the registry stay as they are, no function
\* is started and nothing is sent; and this from the step on that set
\* isInCall, whether or not a render has since brought the refs up to date.
C21_UnrelatedOfferDropped ==
  \A senderId \in Remotes, sdp \in Sdps :
    (Receiving /\ Active /\ ~Includes(activeParticipants, senderId)) =>
      LET e == onSignal(Begin, "OFFER", senderId, Me, sdp)
      IN Takes(e) =>
           /\ e.incomingCall = incomingCall
           /\ e.isInCall = isInCall
           /\ e.activeCallData = activeCallData
           /\ e.peerConnectionsRef = peerConnectionsRef
           /\ e.ops = ops
           /\ e.outbox = <<>>

ParticipantsOf(s) == IF s.activeCallData = None THEN <<>> ELSE s.activeCallData[1]

\* C23: an ANSWER from a sender whose connection is registered only starts
\* setRemoteDescription.  When that settles, applied or refused, isInCall
\* and the stored incoming call are unchanged, the participants other than
\* the sender keep their membership and order, a sender already listed or a
\* user who is not in a call leaves the participants as they are; and when
\* the answer is applied to a connection waiting for it, a sender not yet
\* listed in the call is appended at the end.
C23_AnswerAddsSenderOnce ==
  /\ \A senderId \in Remotes, sdp \in Sdps :
       (Receiving /\ peerConnectionsRef[senderId] # "none") =>
         LET e == onSignal(Begin, "ANSWER", senderId, Me, sdp)
         IN Takes(e) =>
              /\ Snapshot(e) = Snapshot(Cur)
              /\ e.ops = Append(ops, [NoOp EXCEPT
                                        !.kind = "ANSWER",
                                        !.phase = "setRemoteDescription",
                                        !.peer = senderId,
                                        !.pc = "registry"])
  /\ \A i \in DOMAIN ops, ok \in BOOLEAN :
       IsAt(i, "ANSWER", "setRemoteDescription") =>
         LET e == onAnswerSet(Begin, i, ok)
             senderId == ops[i].peer
         IN Takes(e) =>
              /\ e.isInCall = isInCall
              /\ e.incomingCall = incomingCall
              /\ Filter(ParticipantsOf(e), senderId)
                   = Filter(activeParticipants, senderId)
              /\ Includes(activeParticipants, senderId) =>
                   e.activeCallData = activeCallData
              /\ ~isInCall => e.activeCallData = None
              /\ (ok /\ SigOf(Cur, senderId, ops[i].pc) = "have-local-offer"
                    /\ activeCallData # None
                    /\ ~Includes(activeParticipants, senderId)) =>
                   e.activeCallData = Some(Append(activeParticipants, senderId))

\* in a call in which C is not listed, C's ANSWER is being applied to the
\* connection that waits for it, and C joins
C23_Witness ==
  /\ isInCall
  /\ ~Includes(activeParticipants, "C")
  /\ \E i \in DOMAIN ops :
       /\ IsAt(i, "ANSWER", "setRemoteDescription")
       /\ ops[i].peer = "C"
       /\ SigOf(Cur, "C", ops[i].pc) = "have-local-offer"
       /\ Takes(onAnswerSet(Begin, i, TRUE))
       /\ Includes(ParticipantsOf(onAnswerSet(Begin, i, TRUE)), "C")

\* ---- C24 ----
\* C24: addToCall called by a user who is not in a call, the closure up to
\* date, changes nothing; and when the microphone is refused, or createOffer
\* or setLocalDescription of the new connection fails or finds the
\* connection closed, the participants are left as they were.
C24_AppendOnlyAfterOffer ==
  /\ \A recipientId \in Remotes :
       (InSync /\ ~Active) => addToCall(Begin, recipientId) = Begin
  /\ \A i \in DOMAIN ops :
       /\ IsAt(i, "addToCall", "getUserMedia") =>
            LET e == addToCallMedia(Begin, i, FALSE)
            IN Takes(e) => e.activeCallData = activeCallData
       /\ IsAt(i, "addToCall", "createOffer") =>
            \A ok \in BOOLEAN :
              LET e == addToCallOffer(Begin, i, ok)
              IN (Takes(e) /\ e.peerConnectionsRef[ops[i].peer]
                                # "have-local-offer") =>
                   e.activeCallData = activeCallData

\* ---- C25 ----
\* C25: in every reachable state, whatever lists startGroupCall was given
\* and whoever addToCall was called for, no remote id is listed twice in the
\* participants.
C25_ParticipantsAreASet == Distinct(activeParticipants)

\* ---- C26 ----
\* the HANGUP case takes senderId for the caller of the call the ref holds
MissedFrom(senderId) ==
  IF rendered.incomingCall = None THEN FALSE
  ELSE rendered.incomingCall[1].callerId = senderId

\* C26: in a call whose participants are two or more remote users, a HANGUP
\* from participant p that is not taken for a missed call closes and removes
\* the registry entry of p and no other, removes p and nobody else from the
\* participants, and drops p's remote stream; the user stays in the call, the
\* local stream and every track are as they were, the functions that held
\* p's connection hold a closed one and nothing is sent.
C26_OneParticipantLeaves ==
  \A p \in Remotes, sdp \in Sdps :
    (Receiving /\ Active /\ Includes(activeParticipants, p)
       /\ Cardinality(Range(activeParticipants)) >= 2
       /\ ~MissedFrom(p)) =>
      LET e == onSignal(Begin, "HANGUP", p, Me, sdp)
      IN Takes(e) =>
           /\ e.isInCall
           /\ e.activeCallData = Some(Filter(activeParticipants, p))
           /\ e.activeCallData # None
           /\ e.incomingCall = incomingCall
           /\ e.peerConnectionsRef = [peerConnectionsRef EXCEPT ![p] = "none"]
           /\ e.remoteStreams = remoteStreams \ {p}
           /\ e.localStream = localStream
           /\ e.streams = streams
           /\ e.tracks = tracks
           /\ e.isMicOn = isMicOn
           /\ e.ops = Detach(Begin, p, "closed").ops
           /\ e.outbox = <<>>
           /\ ~e.raised

\* C left the call with B and C: B's connection is open, C's is gone, the
\* microphone track is live and the screen still shows both
C26_Witness ==
  /\ isInCall
  /\ activeCallData = Some(<<"B">>)
  /\ rendered.activeCallData = Some(<<"B", "C">>)
  /\ IsOpen(peerConnectionsRef["B"])
  /\ peerConnectionsRef["C"] = "none"
  /\ localStream # 0
  /\ \E t \in streams[localStream].tracks : tracks[t].live
  /\ isSignalingConnectedRef

\* ---- C27 ----
\* C27: an acceptIncomingCall that resumes when the stored call is no longer
\* the one it accepted (the caller's HANGUP or a rejectIncomingCall cleared
\* it meanwhile) discards its result: with the microphone granted it
\* registers no connection and keeps no stream, and with its answer created
\* it does not enter the call; in both steps nothing is sent.
C27_StaleAcceptIsDiscarded ==
  \A i \in DOMAIN ops :
    /\ (IsAt(i, "acceptIncomingCall", "getUserMedia")
          /\ incomingCall # ops[i].call /\ CanCapture(Cur)) =>
         LET e == acceptIncomingCallMedia(Begin, i, TRUE)
         IN Takes(e) =>
              /\ e.peerConnectionsRef = peerConnectionsRef
              /\ e.localStream = localStream
              /\ e.isInCall = isInCall
              /\ e.activeCallData = activeCallData
              /\ e.outbox = <<>>
    /\ (IsAt(i, "acceptIncomingCall", "createAnswer")
          /\ incomingCall # ops[i].call) =>
         LET e == acceptIncomingCallAnswer(Begin, i, TRUE)
         IN Takes(e) =>
              /\ e.isInCall = isInCall
              /\ e.activeCallData = activeCallData
              /\ e.outbox = <<>>

\* ---- C28 ----
\* C28: in the missed-call case the insert into notifications, whether it
\* succeeded or failed, is followed by the insert into messages and changes
\* nothing else; and the insert into messages, whether it succeeded or
\* failed, is followed by the end of the case: the stored call is cleared, a
\* user who was not in a call is Idle, the notification written before is
\* still counted and nothing is raised.  Each row is counted exactly when
\* its own insert succeeded.
C28_MissedCallWritesIndependent ==
  \A i \in DOMAIN ops, ok \in BOOLEAN :
    /\ IsAt(i, "HANGUP", "notification") =>
         LET e == onHangupNotification(Begin, i, ok)
         IN Takes(e) =>
              /\ Len(e.ops) = Len(ops)
              /\ e.ops[i] = [ops[i] EXCEPT !.phase = "message"]
              /\ Len(e.inserted) = 1
              /\ e.inserted[1].table = "messages"
              /\ e.missedNotifs
                   = Begin.missedNotifs
                       + (IF ok /\ ops[i].call # None THEN 1 ELSE 0)
              /\ e.missedMsgs = Begin.missedMsgs
              /\ Snapshot(e) = Snapshot(Cur)
              /\ e.peerConnectionsRef = peerConnectionsRef
              /\ ~e.raised
    /\ IsAt(i, "HANGUP", "message") =>
         LET e == onHangupMessage(Begin, i, ok)
         IN Takes(e) =>
              /\ Len(e.ops) = Len(ops) - 1
              /\ e.incomingCall = None
              /\ ~isInCall => ~e.isInCall
              /\ e.missedMsgs
                   = Begin.missedMsgs
                       + (IF ok /\ ops[i].call # None THEN 1 ELSE 0)
              /\ e.missedNotifs = Begin.missedNotifs
              /\ ~e.raised

\* the call was missed: its notification could not be written, its message
\* was, and the user is Idle while the screen still shows the call
C28_Witness ==
  /\ Idle
  /\ ops = <<>>
  /\ missedNotifs = 0
  /\ missedMsgs = 1
  /\ rendered.incomingCall # None

\* ---- C29 ----
\* C29: a HANGUP taken for a missed call hands exactly one row to the
\* notifications table, of type MISSED_CALL, with the local user as
\* recipient, the caller as sender and the caller's id as link; and when
\* that insert has settled, exactly one row to the messages table, with the
\* caller as sender, the local user as recipient, type missed_call and no
\* attachment.  The caller is the one of the stored call the case works on.
C29_MissedCallRecordShape ==
  /\ \A senderId \in Remotes, sdp \in Sdps :
       (Receiving /\ MissedFrom(senderId)) =>
         LET e == onSignal(Begin, "HANGUP", senderId, Me, sdp)
             caller == rendered.incomingCall[1].callerId
         IN Takes(e) =>
              /\ Len(e.inserted) = 1
              /\ e.inserted[1].table = "notifications"
              /\ e.inserted[1].type = "MISSED_CALL"
              /\ e.inserted[1].recipient_id = Me
              /\ e.inserted[1].sender_id = caller
              /\ e.inserted[1].link_to = caller
              /\ e.ops[Len(e.ops)].call = rendered.incomingCall
              /\ e.ops[Len(e.ops)].peer = caller
  /\ \A i \in DOMAIN ops, ok \in BOOLEAN :
       IsAt(i, "HANGUP", "notification") =>
         LET e == onHangupNotification(Begin, i, ok)
             caller == ops[i].peer
         IN Takes(e) =>
              /\ ops[i].call # None => ops[i].call[1].callerId = caller
              /\ Len(e.inserted) = 1
              /\ e.inserted[1].table = "messages"
              /\ e.inserted[1].type = "missed_call"
              /\ e.inserted[1].sender_id = caller
              /\ e.inserted[1].recipient_id = Me
              /\ e.inserted[1].attachments = <<>>

\* B's call is still stored, B's HANGUP is being handled: the notification
\* was handed over and has settled, the message was handed over
C29_Witness ==
  /\ IncomingPending
  /\ incomingCall[1].callerId = "B"
  /\ \E i \in DOMAIN ops :
       /\ IsAt(i, "HANGUP", "message")
       /\ ops[i].peer = "B"
       /\ ops[i].call = incomingCall

\* ---- C30 ----
\* C30: toggleMic with no local stream changes nothing.  With a local
\* stream that has audio tracks, the screen up to date, it negates isMicOn
\* and the enabled state of every audio track of the stream, which in a call
\* agreed with the flag, and touches no other track, stream or flag and
\* sends nothing in that step.  Turning the microphone off starts nothing;
\* turning it on starts renegotiate with every registered connection still
\* to be offered to.  Each step of that renegotiate on an open connection,
\* the channel subscribed, sends exactly one OFFER to its peer and goes on
\* to the registered ones that remain.
C30_ToggleMic ==
  /\ (InSync /\ localStream = 0) => toggleMic(Begin) = Begin
  /\ (InSync /\ localStream # 0
        /\ KindIn(Cur, localStream, {"audio"}) # {}) =>
       LET e == toggleMic(Begin)
           audioTracks == KindIn(Cur, localStream, {"audio"})
       IN TakesMedia(e) =>
            /\ e.isMicOn = ~isMicOn
            /\ \A t \in DOMAIN tracks :
                 IF t \in audioTracks
                 THEN /\ isInCall => tracks[t].enabled = isMicOn
                      /\ e.tracks[t] = [tracks[t] EXCEPT !.enabled = ~isMicOn]
                 ELSE e.tracks[t] = tracks[t]
            /\ e.streams = streams
            /\ e.localStream = localStream
            /\ e.isCameraOn = isCameraOn
            /\ e.isScreenSharing = isScreenSharing
            /\ e.isInCall = isInCall
            /\ e.peerConnectionsRef = peerConnectionsRef
            /\ e.outbox = <<>>
            /\ IF isMicOn \/ Registered(Cur) = {} THEN e.ops = ops
               ELSE /\ Len(e.ops) = Len(ops) + 1
                    /\ LET op == e.ops[Len(e.ops)]
                       IN /\ op.kind = "toggleMic"
                          /\ op.phase = "createOffer"
                          /\ op.pc = "registry"
                          /\ op.peer \in Registered(Cur)
                          /\ Registered(Cur) \subseteq ToOffer(op)
  /\ \A i \in DOMAIN ops :
       (IsAt(i, "toggleMic", "createOffer") /\ ops[i].pc = "registry"
          /\ peerConnectionsRef[ops[i].peer] # "none"
          /\ isSignalingConnectedRef) =>
         LET e == renegotiateStep(Begin, i, TRUE)
             left == Registered(Cur) \cap Range(ops[i].ids)
         IN TakesMedia(e) =>
              /\ e.outbox = <<[type |-> "OFFER", senderId |-> Me,
                               recipientId |-> ops[i].peer]>>
              /\ e.peerConnectionsRef[ops[i].peer] = "have-local-offer"
              /\ e.isMicOn = isMicOn
              /\ e.tracks = tracks
              /\ IF left = {} THEN e.ops = RemoveAt(ops, i)
                 ELSE /\ Len(e.ops) = Len(ops)
                      /\ e.ops[Len(e.ops)].kind = "toggleMic"
                      /\ e.ops[Len(e.ops)].phase = "createOffer"
                      /\ left \subseteq ToOffer(e.ops[Len(e.ops)])

\* the microphone was turned on in the call with B and C, by the only
\* toggle so far, and both were sent their OFFER
C30_Witness ==
  /\ isInCall
  /\ activeCallData = Some(<<"B", "C">>)
  /\ toggled = 1
  /\ isMicOn
  /\ \A t \in KindIn(Cur, localStream, {"audio"}) : tracks[t].enabled
  /\ peerConnectionsRef["B"] = "have-local-offer"
  /\ peerConnectionsRef["C"] = "have-local-offer"
  /\ isSignalingConnectedRef
  /\ ops = <<>>

\* ---- C31 ----
\* C31: toggleCamera with the camera on, the screen up to date, stops the
\* camera tracks of the local stream and takes them off it, and leaves every
\* other track, a screen track included, live and on the stream; isCameraOn
\* is cleared and no other flag changes; the video sender of every
\* registered connection is given the null track and none is removed or
\* handed a track; no function is started and nothing is sent.
C31_CameraOff ==
  (InSync /\ localStream # 0 /\ isCameraOn /\ CanCapture(Cur)) =>
    LET e == toggleCamera(Begin)
        cams == KindIn(Cur, localStream, {"camera"})
    IN TakesMedia(e) =>
         /\ ~e.isCameraOn
         /\ \A t \in DOMAIN tracks :
              e.tracks[t] = IF t \in cams
                            THEN [tracks[t] EXCEPT !.live = FALSE]
                            ELSE tracks[t]
         /\ e.localStream # 0
         /\ e.streams[e.localStream].tracks = streams[localStream].tracks \ cams
         /\ KindIn(e, e.localStream, {"screen"})
              = KindIn(Cur, localStream, {"screen"})
         /\ e.isScreenSharing = isScreenSharing
         /\ e.isMicOn = isMicOn
         /\ e.isInCall = isInCall
         /\ e.peerConnectionsRef = peerConnectionsRef
         /\ e.nulled = Registered(Cur)
         /\ e.attached = {}
         /\ e.ops = ops
         /\ e.outbox = <<>>

\* the camera is on in a call, a camera track and a screen track are both
\* on the stream shown, and turning the camera off is a step the store can
\* take and keeps the screen track live
C31_Witness ==
  /\ InSync
  /\ isInCall
  /\ isCameraOn
  /\ CanCapture(Cur)
  /\ KindIn(Cur, localStream, {"camera"}) # {}
  /\ KindIn(Cur, localStream, {"screen"}) # {}
  /\ Registered(Cur) # {}
  /\ TakesMedia(toggleCamera(Begin))
  /\ \A t \in KindIn(Cur, localStream, {"screen"}) :
       toggleCamera(Begin).tracks[t].live

\* ---- C32 ----
\* C32: when createOffer or setLocalDescription fails for one connection
\* inside renegotiate, nothing is sent for it and no connection changes, and
\* the loop goes on: with registered connections still to come the function
\* waits for the createOffer of one of them with all of them still to be
\* offered to, and when that one succeeds on an open connection, the channel
\* subscribed, exactly one OFFER addressed to it is sent.
C32_FailedOfferDoesNotAbort ==
  \A i \in DOMAIN ops :
    (ops[i].phase = "createOffer" /\ CanCapture(Cur)) =>
      LET e == renegotiateStep(Begin, i, FALSE)
          left == Registered(Cur) \cap Range(ops[i].ids)
      IN TakesMedia(e) =>
           /\ e.outbox = <<>>
           /\ e.peerConnectionsRef = peerConnectionsRef
           /\ left # {} =>
                /\ Len(e.ops) = Len(ops)
                /\ LET op == e.ops[Len(e.ops)]
                       n == renegotiateStep(e, Len(e.ops), TRUE)
                   IN /\ op.kind = ops[i].kind
                      /\ op.phase = "createOffer"
                      /\ op.pc = "registry"
                      /\ op.peer \in left
                      /\ left \subseteq ToOffer(op)
                      /\ isSignalingConnectedRef =>
                           /\ n.outbox = <<[type |-> "OFFER", senderId |-> Me,
                                            recipientId |-> op.peer]>>
                           /\ n.peerConnectionsRef[op.peer] = "have-local-offer"

\* in the call with B and C the only round of renegotiation so far failed
\* for B and went on to send C its OFFER
C32_Witness ==
  /\ isInCall
  /\ activeCallData = Some(<<"B", "C">>)
  /\ toggled = 1
  /\ peerConnectionsRef["B"] = "stable"
  /\ peerConnectionsRef["C"] = "have-local-offer"
  /\ isSignalingConnectedRef
  /\ ops = <<>>

\* ---- the call after a call ----
\* One user in a call with B who shares the screen, leaves the call, is
\* called, accepts and calls: the toggles of SpecMedia next to the start of
\* a call of Spec, under the bounds of SpecMedia; a call started or accepted
\* is counted as a toggle is.
ReceiveOfferNext(senderId) ==
  /\ rendered.currentUser
  /\ isSignalingConnectedRef
  /\ DoMedia(onSignal(Begin, "OFFER", senderId, Me, 1))

OfferCreateAnswerDoneNext(i, ok) ==
  /\ IsAt(i, "OFFER", "createAnswer")
  /\ DoMedia(onOfferAnswer(Begin, i, ok))

AcceptIncomingCallNext == DoMedia(Counted(acceptIncomingCall(Begin)))

AcceptGetUserMediaDoneNext(i, ok) ==
  /\ IsAt(i, "acceptIncomingCall", "getUserMedia")
  /\ MayCapture(ok)
  /\ DoMedia(acceptIncomingCallMedia(Begin, i, ok))

AcceptCreateAnswerDoneNext(i, ok) ==
  /\ IsAt(i, "acceptIncomingCall", "createAnswer")
  /\ DoMedia(acceptIncomingCallAnswer(Begin, i, ok))

StartCallNext(recipientId) ==
  DoMedia(Counted(startGroupCall(Begin, <<recipientId>>)))

StartGetUserMediaDoneNext(i, ok) ==
  /\ IsAt(i, "startGroupCall", "getUserMedia")
  /\ MayCapture(ok)
  /\ DoMedia(startGroupCallMedia(Begin, i, ok))

StartCreateOfferDoneNext(i, ok) ==
  /\ IsAt(i, "startGroupCall", "createOffer")
  /\ DoMedia(startGroupCallOffer(Begin, i, 1, ok))

InitNextCall == InCallWith(<<"B">>)

NextNextCall ==
  \/ Render
  \/ ToggleScreenShare
  \/ \E i \in DOMAIN ops, ok \in BOOLEAN : ToggleScreenShareMediaDone(i, ok)
  \/ \E i \in DOMAIN ops, ok \in BOOLEAN : RenegotiateDone(i, ok)
  \/ EndCallMedia
  \/ \E senderId \in Remotes : ReceiveOfferNext(senderId)
  \/ \E i \in DOMAIN ops, ok \in BOOLEAN : OfferCreateAnswerDoneNext(i, ok)
  \/ AcceptIncomingCallNext
  \/ \E i \in DOMAIN ops, ok \in BOOLEAN : AcceptGetUserMediaDoneNext(i, ok)
  \/ \E i \in DOMAIN ops, ok \in BOOLEAN : AcceptCreateAnswerDoneNext(i, ok)
  \/ StartCallNext("B")
  \/ \E i \in DOMAIN ops, ok \in BOOLEAN : StartGetUserMediaDoneNext(i, ok)
  \/ \E i \in DOMAIN ops, ok \in BOOLEAN : StartCreateOfferDoneNext(i, ok)

SpecNextCall == InitNextCall /\ [][NextNextCall]_vars

\* ---- C33 ----
\* the store of e shows a local stream that holds audio tracks only, at
\* least one, every one of them disabled, with the three media flags off
StartsMuted(e) ==
  /\ e.localStream # 0
  /\ e.streams[e.localStream].tracks # {}
  /\ \A t \in e.streams[e.localStream].tracks :
       e.tracks[t].kind = "audio" /\ ~e.tracks[t].enabled
  /\ ~e.isMicOn
  /\ ~e.isCameraOn
  /\ ~e.isScreenSharing

\* C33: right after getUserMedia succeeds inside startGroupCall or inside
\* acceptIncomingCall, the local stream holds audio tracks only, all of them
\* disabled, and isMicOn, isCameraOn and isScreenSharing are false.
C33_CallsStartMuted ==
  \A i \in DOMAIN ops :
    /\ (IsAt(i, "startGroupCall", "getUserMedia") /\ CanCapture(Cur)) =>
         LET e == startGroupCallMedia(Begin, i, TRUE)
         IN TakesMedia(e) => StartsMuted(e)
    /\ (IsAt(i, "acceptIncomingCall", "getUserMedia") /\ CanCapture(Cur)) =>
         LET e == acceptIncomingCallMedia(Begin, i, TRUE)
         IN TakesMedia(e) => StartsMuted(e)

\* ---- C36 ----
\* C36: in every reachable state in which no asynchronous function is
\* waiting, the remote ids that have a connection in the registry are
\* exactly the ids of activeParticipants.
C36_RegistryIsParticipants ==
  (ops = <<>>) => Registered(Cur) = Range(activeParticipants)

\* ---- C37 ----
\* C37: in every reachable state in which the user is not in a call and no
\* asynchronous function is waiting, the registry is empty and no track of
\* the local stream is live.
C37_QuietOutsideCall ==
  (~isInCall /\ ops = <<>>) =>
    /\ NoEntries(Cur)
    /\ \A t \in DOMAIN tracks : tracks[t].kind # "free" => ~tracks[t].live

\* ---- C39 ----
\* the store of e is signed out and Idle: no stored offer, no participants,
\* no connection in the registry, no remote stream, no local stream, the
\* media flags off, every track of the local stream there was stopped, and
\* the step sent nothing
LoggedOutIdle(e) ==
  /\ ~e.currentUser
  /\ e.incomingCall = None
  /\ ~e.isInCall
  /\ e.activeCallData = None
  /\ NoEntries(e)
  /\ e.remoteStreams = {}
  /\ e.localStream = 0
  /\ ~e.isMicOn /\ ~e.isCameraOn /\ ~e.isScreenSharing
  /\ localStream # 0 =>
       \A t \in streams[localStream].tracks : ~e.tracks[t].live
  /\ e.outbox = <<>>

\* C39: logout, the screen up to date when it runs its last lines, leaves
\* the user signed out and Idle with no stored offer, no participants, an
\* empty registry, no remote streams and every track of the local stream
\* stopped, whatever the phase was, and it sends no HANGUP or other envelope.
C39_LogoutCleansUp ==
  /\ (InSync /\ ~currentUser) =>
       LET e == logout(Begin)
       IN Takes(e) => LoggedOutIdle(e)
  /\ \A i \in DOMAIN ops :
       (InSync /\ IsAt(i, "logout", "update")) =>
         LET e == logoutRest(DropOp(Begin, i))
         IN Takes(e) => LoggedOutIdle(e)

\* logout is about to run its last lines during a call with B that has a
\* live local track and an open connection
C39_Witness ==
  /\ InSync
  /\ isInCall
  /\ activeParticipants = <<"B">>
  /\ peerConnectionsRef["B"] # "none"
  /\ isSignalingConnectedRef
  /\ localStream # 0
  /\ \E t \in streams[localStream].tracks : tracks[t].live
  /\ \E i \in DOMAIN ops :
       /\ IsAt(i, "logout", "update")
       /\ Takes(logoutRest(DropOp(Begin, i)))
       /\ ~logoutRest(DropOp(Begin, i)).isInCall

\* ---- two users on one channel ----
\* The stores of two users, A and B, both signed in and subscribed.  Both
\* run the same code: each store names its own user Me and the other user
\* Them, the store of A is in the variables of the store and the store of B
\* in peerStore, and an envelope sent by one is handed to the callback of
\* the other with the two names exchanged.  The channel keeps the order of
\* the envelopes of a sender and loses none.  A user acts on what the screen
\* shows; envelopes and settled promises may find a store MaxStale steps
\* ahead of its render.
Them == "B"
Pair == {"A", "B"}
Other(u) == IF u = "A" THEN "B" ELSE "A"

\* a store between two steps: what a step reports is forgotten
ClearStep(s) ==
  [s EXCEPT !.outbox = <<>>, !.raised = FALSE, !.leakedPcs = 0,
            !.leakedTracks = 0, !.attached = {}, !.inserted = <<>>,
            !.nulled = {}]

\* the store a step of the second user starts from, as Begin is for the first
BeginPeer ==
  LET over == /\ peerStore.incomingCall = None
              /\ peerStore.rendered.incomingCall = None
              /\ \A i \in DOMAIN peerStore.ops : peerStore.ops[i].kind # "HANGUP"
  IN [peerStore EXCEPT !.missedNotifs = IF over THEN 0 ELSE @,
                       !.missedMsgs = IF over THEN 0 ELSE @]

StoreOf(u) == IF u = "A" THEN Begin ELSE BeginPeer
StaleOf(u) == IF u = "A" THEN unrendered ELSE peerUnrendered
InSyncOf(u) == StoreOf(u).rendered = Snapshot(StoreOf(u))

\* the store of u becomes e with its heaps collected
PutStore(u, e) ==
  IF u = "A"
  THEN SetStore(e) /\ UNCHANGED <<peerStore, peerUnrendered>>
  ELSE \E n \in {Gc(e)} :
         /\ peerStore' = ClearStep(n)
         /\ peerUnrendered' = IF n.rendered = Snapshot(n) THEN 0
                              ELSE peerUnrendered + 1
         /\ UNCHANGED storeVars

\* the types of the envelopes of a step that are addressed to the other user
SentToThem(e) ==
  LET out == SelectSeq(e.outbox, LAMBDA m : m.recipientId = Them)
  IN [k \in DOMAIN out |-> out[k].type]

FitsPair(e) ==
  /\ Len(e.ops) <= MaxPairOps
  /\ e.missedNotifs <= MaxRecords
  /\ e.missedMsgs <= MaxRecords
  /\ IF e.activeCallData = None THEN TRUE
     ELSE Len(e.activeCallData[1]) <= MaxParticipants

\* a step of the store of u that leads to e, the envelopes in flight being w
\* before its own are sent and the users having done c
StepPair(u, e, w, c) ==
  /\ StaleOf(u) <= MaxStale
  /\ FitsPair(e)
  /\ Len(w[Other(u)]) + Len(SentToThem(e)) <= MaxWire
  /\ LET ends == Len(SelectSeq(c, LAMBDA click : click.what = "end"))
     IN ends <= MaxEnds /\ Len(c) - ends <= MaxClicks
  /\ wire' = [w EXCEPT ![Other(u)] = @ \o SentToThem(e)]
  /\ clicks' = c
  /\ PutStore(u, e)

PhaseOf(s) ==
  IF s.isInCall THEN "Active"
  ELSE IF s.incomingCall # None THEN "IncomingPending"
  ELSE "Idle"

\* an action of the user u that changes something, noted with the phase the
\* store was in when it was taken
Click(u, what, e) ==
  /\ InSyncOf(u)
  /\ e # StoreOf(u)
  /\ StepPair(u, e, wire,
              Append(clicks, [who |-> u, what |-> what,
                              phase |-> PhaseOf(StoreOf(u))]))

AtPair(u, i, kind, phase) ==
  /\ i \in DOMAIN StoreOf(u).ops
  /\ StoreOf(u).ops[i].kind = kind
  /\ StoreOf(u).ops[i].phase = phase

RenderPair(u) ==
  /\ ~InSyncOf(u)
  /\ PutStore(u, render(StoreOf(u)))
  /\ UNCHANGED <<wire, clicks>>

StartCallPair(u) ==
  \E e \in {startGroupCall(StoreOf(u), <<Them>>)} : Click(u, "start", e)

AcceptPair(u) ==
  \E e \in {acceptIncomingCall(StoreOf(u))} : Click(u, "accept", e)

RejectPair(u) ==
  \E e \in {rejectIncomingCall(StoreOf(u))} : Click(u, "reject", e)

EndCallPair(u) ==
  \E e \in {endCall(StoreOf(u))} : Click(u, "end", e)

\* the envelope that was sent first reaches the callback of u
DeliverPair(u) ==
  /\ wire[u] # <<>>
  /\ StoreOf(u).rendered.currentUser
  /\ StoreOf(u).isSignalingConnectedRef
  /\ \E e \in {onSignal(StoreOf(u), Head(wire[u]), Them, Me, 1)} :
       StepPair(u, e, [wire EXCEPT ![u] = Tail(@)], clicks)

StartGetUserMediaDonePair(u, i, ok) ==
  /\ AtPair(u, i, "startGroupCall", "getUserMedia")
  /\ ok => CanCapture(StoreOf(u))
  /\ \E e \in {startGroupCallMedia(StoreOf(u), i, ok)} :
       StepPair(u, e, wire, clicks)

StartCreateOfferDonePair(u, i, ok) ==
  /\ AtPair(u, i, "startGroupCall", "createOffer")
  /\ \E e \in {startGroupCallOffer(StoreOf(u), i, 1, ok)} :
       StepPair(u, e, wire, clicks)

AcceptGetUserMediaDonePair(u, i, ok) ==
  /\ AtPair(u, i, "acceptIncomingCall", "getUserMedia")
  /\ ok => CanCapture(StoreOf(u))
  /\ \E e \in {acceptIncomingCallMedia(StoreOf(u), i, ok)} :
       StepPair(u, e, wire, clicks)

AcceptCreateAnswerDonePair(u, i, ok) ==
  /\ AtPair(u, i, "acceptIncomingCall", "createAnswer")
  /\ \E e \in {acceptIncomingCallAnswer(StoreOf(u), i, ok)} :
       StepPair(u, e, wire, clicks)

OfferCreateAnswerDonePair(u, i, ok) ==
  /\ AtPair(u, i, "OFFER", "createAnswer")
  /\ \E e \in {onOfferAnswer(StoreOf(u), i, ok)} :
       StepPair(u, e, wire, clicks)

AnswerSetRemoteDescriptionDonePair(u, i, ok) ==
  /\ AtPair(u, i, "ANSWER", "setRemoteDescription")
  /\ \E e \in {onAnswerSet(StoreOf(u), i, ok)} :
       StepPair(u, e, wire, clicks)

InsertNotificationDonePair(u, i, ok) ==
  /\ AtPair(u, i, "HANGUP", "notification")
  /\ \E e \in {onHangupNotification(StoreOf(u), i, ok)} :
       StepPair(u, e, wire, clicks)

InsertMessageDonePair(u, i, ok) ==
  /\ AtPair(u, i, "HANGUP", "message")
  /\ \E e \in {onHangupMessage(StoreOf(u), i, ok)} :
       StepPair(u, e, wire, clicks)

\* what the browser, React and the channel do by themselves
RunsPair ==
  \E u \in Pair :
    \/ RenderPair(u)
    \/ DeliverPair(u)
    \/ \E i \in 1..MaxPairOps, ok \in BOOLEAN :
         \/ StartGetUserMediaDonePair(u, i, ok)
         \/ StartCreateOfferDonePair(u, i, ok)
         \/ AcceptGetUserMediaDonePair(u, i, ok)
         \/ AcceptCreateAnswerDonePair(u, i, ok)
         \/ OfferCreateAnswerDonePair(u, i, ok)
         \/ AnswerSetRemoteDescriptionDonePair(u, i, ok)
         \/ InsertNotificationDonePair(u, i, ok)
         \/ InsertMessageDonePair(u, i, ok)

\* what the two users do
ClicksPair ==
  \E u \in Pair :
    \/ StartCallPair(u)
    \/ AcceptPair(u)
    \/ RejectPair(u)
    \/ EndCallPair(u)

InitPair ==
  /\ currentUser = TRUE
  /\ incomingCall = None
  /\ isInCall = FALSE
  /\ activeCallData = None
  /\ localStream = 0
  /\ remoteStreams = {}
  /\ isScreenSharing = FALSE
  /\ isMicOn = FALSE
  /\ isCameraOn = FALSE
  /\ rendered = [currentUser |-> TRUE, incomingCall |-> None,
                 isInCall |-> FALSE, activeCallData |-> None,
                 localStream |-> 0, isScreenSharing |-> FALSE,
                 isMicOn |-> FALSE, isCameraOn |-> FALSE]
  /\ peerConnectionsRef = [r \in Remotes |-> "none"]
  /\ isSignalingConnectedRef = TRUE
  /\ streams = [i \in StreamIds |-> FreeStream]
  /\ tracks = [t \in TrackIds |-> FreeTrack]
  /\ ops = <<>>
  /\ missedNotifs = 0
  /\ missedMsgs = 0
  /\ unrendered = 0
  /\ toggled = 0
  /\ peerStore = Cur
  /\ peerUnrendered = 0
  /\ wire = [u \in Pair |-> <<>>]
  /\ clicks = <<>>

NextPair == RunsPair \/ ClicksPair

\* every render that is due, every envelope in flight and every promise
\* that is pending is dealt with in the end
SpecPair == InitPair /\ [][NextPair]_vars /\ WF_vars(RunsPair)

\* ---- C34 ----
\* the store s is Idle with an empty registry, no stored offer and no live
\* track
QuietStore(s) ==
  /\ ~s.isInCall
  /\ s.activeCallData = None
  /\ s.incomingCall = None
  /\ NoEntries(s)
  /\ \A t \in DOMAIN s.tracks : ~s.tracks[t].live

BothQuiet == QuietStore(Cur) /\ QuietStore(peerStore)

\* A, Idle, called B and B rejected, and neither user did anything else
CalledAndRejected ==
  clicks = <<[who |-> "A", what |-> "start", phase |-> "Idle"],
             [who |-> "B", what |-> "reject", phase |-> "IncomingPending"]>>

\* C34: with both users subscribed and no envelope lost, when Idle A has
\* called Idle B and B has rejected, then, unless one of the users takes
\* another action first, a state follows in which A and B are both Idle
\* with an empty registry, no stored offer and no live local track.
C34_RejectEndsBoth ==
  CalledAndRejected ~> (BothQuiet \/ ~CalledAndRejected)

\* A called, B rejected, neither did anything else, and both are Idle with
\* nothing in flight
C34_Witness ==
  /\ CalledAndRejected
  /\ BothQuiet
  /\ wire = [u \in Pair |-> <<>>]
  /\ ops = <<>>
  /\ peerStore.ops = <<>>

\* ---- C35 ----
BothIdle == PhaseOf(Cur) = "Idle" /\ PhaseOf(peerStore) = "Idle"

\* the n-th action of the two users, the last so far, was an endCall by a
\* user who was Active, in a call that began with a call from an Idle user
EndedAt(n) ==
  /\ Len(clicks) = n
  /\ clicks[n].what = "end"
  /\ clicks[n].phase = "Active"
  /\ clicks[1].what = "start"
  /\ clicks[1].phase = "Idle"

\* C35: with both users subscribed and no envelope lost, when a user who is
\* Active in the call between A and B has invoked endCall, then, unless one
\* of the users takes another action first, a state follows in which A and
\* B are both Idle.
C35_EndCallEndsBoth ==
  \A n \in 2..(MaxClicks + MaxEnds) :
    EndedAt(n) ~> (BothIdle \/ Len(clicks) > n)

\* ---- C38 ----
\* A and B each started a call to the other while Idle, and neither user
\* did anything else
Glare ==
  \E u \in Pair :
    clicks = <<[who |-> u, what |-> "start", phase |-> "Idle"],
               [who |-> Other(u), what |-> "start", phase |-> "Idle"]>>

\* C38: when A and B have each started a call to the other while Idle and
\* both are in the call, neither store holds an incoming offer and the
\* participants of each are exactly the other user.
C38_GlareStoresNoOffer ==
  (Glare /\ isInCall /\ peerStore.isInCall) =>
    /\ incomingCall = None
    /\ peerStore.incomingCall = None
    /\ activeCallData = Some(<<Them>>)
    /\ peerStore.activeCallData = Some(<<Them>>)

====
